---- MODULE Spec2Model ----
(***************************************************************************)
(* bcr-relay: the notification workflow (start, register, confirm_email,   *)
(* preferences, update_preferences, send) over the notification store.     *)
(* Every handler is a sequence of steps, one per store or email call, and  *)
(* the steps of concurrent requests interleave.                            *)
(***************************************************************************)
EXTENDS Integers, Sequences, FiniteSets, TLC

\* ------------------------------------------------------------------ bounds
\* concurrent request tasks
MaxProcs == 2
\* clock advances per behaviour
MaxTicks == 1
\* challenges drawn from the random source
MaxChallenges == 2
\* tokens drawn from the random source
MaxTokens == 4
\* SlidingWindow: the largest limit and window, and the last timestamp
MaxLimit == 2
MaxWindow == 2
MaxTime == 5
\* RateLimiter: the check calls made
MaxChecks == 2
\* relay: the admit_event calls made
MaxAdmits == 2

\* --------------------------------------------------------- program constants
CHALLENGE_EXPIRY_SECONDS == 120
\* rate_limit.rs: hits allowed per window, the windows in seconds
IP_LIMIT == 100
IP_WINDOW == 600
EMAIL_LIMIT == 30
EMAIL_WINDOW == 86400
NPUB_LIMIT == 100
NPUB_WINDOW == 600
\* an entry idle for longer is removed; the maps are looked through this often
MAX_IDLE == 86400
PRUNE_INTERVAL == 600
\* proxy/mod.rs
PROXY_REQ_MAX_REDIRECTS == 2
PROXY_MAX_BODY_SIZE == 2097152
MAX_FILE_SIZE_BYTES == 1000000
ENCRYPTION_PUB_KEY_BYTE_LEN == 65
EMAIL_CONFIRMATION_EXPIRY_SECONDS == 60 * 60 * 24
BITCR_PREFIX == <<"b", "i", "t", "c", "r">>

\* ------------------------------------------------------------ input domains
Procs == 1..MaxProcs
Npubs == {"npub1a", "npub1b"}
BadNpub == "nsec1x"
Emails == {"a@x.co", "b@x.co"}
BadEmail == "not-an-email"
EbillUrls == {"https://ebill.example/"}
BadToken == -1
\* clock advances: up to an expiry and just past it
ChallengeTicks == {CHALLENGE_EXPIRY_SECONDS, CHALLENGE_EXPIRY_SECONDS + 1}
ConfirmationTicks == {EMAIL_CONFIRMATION_EXPIRY_SECONDS,
                      EMAIL_CONFIRMATION_EXPIRY_SECONDS + 1}

\* Option<T>: None is <<>>, Some(x) is <<x>>
None == <<>>
Some(x) == <<x>>
IsSome(o) == o # <<>>
Unwrap(o) == o[1]

\* --------------------------------------------------------------- util.rs
\* the x-only key a bech32 npub decodes to
XOnly(npub) == IF npub = "npub1a" THEN "keyA" ELSE "keyB"
Keys == {XOnly(n) : n \in Npubs}

\* Ok(key) is Some(key), Err is None
validate_npub(npub) == IF npub \in Npubs THEN Some(XOnly(npub)) ELSE None

\* a Schnorr signature: made by the holder of key over msg, or not a signature
Sign(key, msg) == [wellformed |-> TRUE, key |-> key, msg |-> msg]
Malformed(msg) == [wellformed |-> FALSE, key |-> "", msg |-> msg]

\* hex::decode of a stored challenge: the 32 bytes it encodes
hex_decode(challenge) == challenge

\* a verification that looks at the key only
verify_signature_of_any_message(challenge, signature, pub_key) ==
    IF ~signature.wellformed THEN "err"
    ELSE IF signature.key = pub_key THEN "true" ELSE "false"

\* "err" | "true" | "false"
verify_signature(challenge, signature, pub_key) ==
    IF ~signature.wellformed THEN "err"
    ELSE IF signature.key = pub_key /\ signature.msg = hex_decode(challenge)
         THEN "true" ELSE "false"

\* borsh: the fields in declaration order, each length-prefixed (injective),
\* of a NotificationSendPayload or a ProxyReqPayload
borsh_to_vec(payload) ==
    IF "url" \in DOMAIN payload THEN <<payload.npub, payload.url>>
    ELSE <<payload.kind, payload.id, payload.receiver, payload.sender>>

verify_request(payload, signature, key) ==
    IF ~signature.wellformed THEN "err"
    ELSE IF signature.key = key /\ signature.msg = borsh_to_vec(payload)
         THEN "true" ELSE "false"

email_is_valid(email) == email \in Emails

\* URL_SAFE_NO_PAD.decode(token).is_ok()
base64_decodes(token) == token # BadToken

\* --------------------------------------------------------- preferences.rs
FlagNames == << "BillSigned", "BillAccepted", "BillAcceptanceRequested",
                "BillAcceptanceRejected", "BillAcceptanceTimeout",
                "BillAcceptanceRecourse", "BillPaymentRequested",
                "BillPaymentRejected", "BillPaymentTimeout",
                "BillPaymentRecourse", "BillRecourseRejected",
                "BillRecourseTimeout", "BillSellOffered", "BillBuyingRejected",
                "BillPaid", "BillRecoursePaid", "BillEndorsed", "BillSold",
                "BillMintingRequested", "BillNewQuote", "BillQuoteApproved" >>

NumFlags == Len(FlagNames)

\* bit i of the two's-complement i64 x (x within the 32-bit range of the checker)
BitAt(x, i) ==
    IF x >= 0 THEN (x \div (2 ^ i)) % 2
    ELSE 1 - ((((-x) - 1) \div (2 ^ i)) % 2)

RECURSIVE OrUpTo(_, _, _)
OrUpTo(a, b, i) ==
    IF i < 0 THEN 0
    ELSE (IF BitAt(a, i) = 1 \/ BitAt(b, i) = 1 THEN 2 ^ i ELSE 0)
         + OrUpTo(a, b, i - 1)

RECURSIVE AndUpTo(_, _, _)
AndUpTo(a, b, i) ==
    IF i < 0 THEN 0
    ELSE (IF BitAt(a, i) = 1 /\ BitAt(b, i) = 1 THEN 2 ^ i ELSE 0)
         + AndUpTo(a, b, i - 1)

\* PreferencesFlags::all().bits()
AllFlagBits == (2 ^ NumFlags) - 1

\* a | b and a & b on values of PreferencesFlags (known bits only)
FlagsOr(a, b) == OrUpTo(a, b, NumFlags - 1)
FlagsAnd(a, b) == AndUpTo(a, b, NumFlags - 1)

from_bits_truncate(bits) == AndUpTo(bits, AllFlagBits, NumFlags - 1)

\* only a single defined flag
from_bits_single(bits) ==
    IF \E i \in 1..NumFlags : bits = 2 ^ (i - 1) THEN Some(bits) ELSE None

\* Some(flags) iff bits has no bit outside the defined flags
from_bits(bits) ==
    IF from_bits_truncate(bits) = bits THEN Some(bits) ELSE None

from_name(name) ==
    IF \E i \in 1..NumFlags : FlagNames[i] = name
    THEN Some(2 ^ ((CHOOSE i \in 1..NumFlags : FlagNames[i] = name) - 1))
    ELSE None

contains(flags, other) == FlagsAnd(flags, other) = other

FlagOf(name) == Unwrap(from_name(name))

DefaultNames == << "BillSigned", "BillAccepted", "BillAcceptanceRequested",
                   "BillAcceptanceTimeout", "BillAcceptanceRejected",
                   "BillAcceptanceRecourse", "BillPaid", "BillPaymentRequested",
                   "BillPaymentTimeout", "BillPaymentRejected",
                   "BillPaymentRecourse", "BillRecoursePaid",
                   "BillRecourseRejected", "BillRecourseTimeout",
                   "BillMintingRequested" >>

RECURSIVE OrNames(_, _)
OrNames(names, i) ==
    IF i = 0 THEN 0 ELSE FlagsOr(FlagOf(names[i]), OrNames(names, i - 1))

PreferencesFlags_default == OrNames(DefaultNames, Len(DefaultNames))

\* ------------------------------------------------------------------ state
VARIABLES
    now,            \* Utc::now() / the database's NOW()
    ticks,          \* clock advances so far
    challenges,     \* table notif_challenges, by npub
    verification,   \* table notif_email_verification, by npub
    preferences,    \* table notif_email_preferences, by npub
    nextChallenge,  \* the next value rand::thread_rng() yields for a challenge
    nextToken,      \* the next value rand::thread_rng() yields for a token
    pc,             \* each request task's position in its handler
    req,            \* each request task's request
    loc,            \* each request task's local variables
    resp,           \* each request task's response
    lastStart,      \* history: the challenge start wrote last, by npub
    unsaved,        \* history: the challenges start returned after it
                    \* failed to write them
    lastConfirm,    \* history: the token the last successful confirm_email
                    \* since the last successful register presented, and the
                    \* email of the confirmation row it named, by npub
    slidingWindow,  \* one SlidingWindow
    granted,        \* history: the timestamps of its allow calls that
                    \* returned true, in call order
    lastAllow,      \* history: the timestamp and the result of its last
                    \* allow call
    limiter,        \* the RateLimiter of AppState
    lastCheck,      \* history: the arguments, the time and the result of
                    \* its last check call, and the number of calls so far
    unpruned,       \* history: the RateLimiter the same calls would have
                    \* left had none of them pruned
    proxy,          \* the task of a proxy request: its position, its locals,
                    \* its response, and as history the URLs that passed
                    \* check_url and the URLs fetched
    blockRateLimiter,   \* the relay's write policy: its NostrRateLimiter
                        \* and its chains
    files,          \* table files, by hash
    lastBlob,       \* history: the last blossom request and its response
    admits,         \* history: per peer and event the times admit_event
                    \* accepted it, the last call and its result, and the
                    \* number of calls so far
    mutex,          \* the Mutex around the RateLimiter of AppState: the
                    \* task holding its guard
    tasks           \* the request tasks seen from that mutex: the handler,
                    \* the position around the check, the operations on the
                    \* database, DNS, mail and upstream done and to come

vars == <<now, ticks, challenges, verification, preferences, nextChallenge,
          nextToken, pc, req, loc, resp, lastStart, unsaved, lastConfirm,
          slidingWindow, granted, lastAllow, limiter, lastCheck, unpruned,
          proxy,
          blockRateLimiter, admits, files, lastBlob, mutex, tasks>>

\* the request tasks of the notification routes and what they work on
notification == <<now, ticks, challenges, verification, preferences,
                  nextChallenge, nextToken, pc, req, loc, resp, lastStart,
                  unsaved,
                  lastConfirm>>

\* what the notification handlers modelled here do not touch
windowVars == <<slidingWindow, granted, lastAllow>>
limiterVars == <<limiter, lastCheck, unpruned>>
relayVars == <<blockRateLimiter, admits>>
blossomVars == <<files, lastBlob>>
mutexVars == <<mutex, tasks>>
outside == <<windowVars, limiterVars, proxy, relayVars, blossomVars, mutexVars>>

\* no window has been created
NoWindow ==
    /\ slidingWindow = None
    /\ granted = <<>>
    /\ lastAllow = None

\* the limiter that handlers here do not call: its verdict is their input
NoLimiter ==
    /\ limiter = None
    /\ lastCheck = None
    /\ unpruned = None

\* sha256 of a body: equal for equal bytes, and no two of the bodies tried
\* collide
sha256(body) == "sha256:" \o body.bytes

\* the bodies: the largest, the smallest and another accepted, one over the
\* size, an empty one, one too short for a key, two that do not start with
\* a key
Bodies ==
    {[bytes |-> "04a..", len |-> 1000000, key |-> TRUE],
     [bytes |-> "04b", len |-> 65, key |-> TRUE],
     [bytes |-> "04g..", len |-> 999999, key |-> TRUE],
     [bytes |-> "04c..", len |-> 1000001, key |-> TRUE],
     [bytes |-> "", len |-> 0, key |-> FALSE],
     [bytes |-> "04d", len |-> 64, key |-> FALSE],
     [bytes |-> "05e", len |-> 65, key |-> FALSE],
     [bytes |-> "00f..", len |-> 66, key |-> FALSE]}

\* the files table is empty and no blossom request has been made
NoBlossom ==
    /\ files = [h \in {sha256(b) : b \in Bodies} |-> None]
    /\ lastBlob = None

\* a request task before its request
NewTask ==
    [pc |-> "idle", handler |-> "", left |-> <<>>, io |-> <<>>,
     allowed |-> None, unverified |-> FALSE]

\* the mutex is free and no task is in a handler
NoTasks ==
    /\ mutex = None
    /\ tasks = [p \in Procs |-> NewTask]

\* no relay has been built
NoRelay ==
    /\ blockRateLimiter = None
    /\ admits = None

\* a proxy task before its request
NewProxyTask ==
    [pc |-> "idle", req |-> None, url |-> None, redirects |-> 0,
     lookup |-> None, upstream |-> None, pending |-> <<>>, body |-> 0,
     passed |-> <<>>, gets |-> <<>>, connects |-> <<>>, resp |-> None]

store == <<challenges, verification, preferences>>
clock == <<now, ticks>>

\* empty tables, no request in flight
NotificationIdle ==
    /\ now = 0
    /\ ticks = 0
    /\ challenges = [n \in Npubs |-> None]
    /\ verification = [n \in Npubs |-> None]
    /\ preferences = [n \in Npubs |-> None]
    /\ nextChallenge = 1
    /\ nextToken = 1
    /\ pc = [p \in Procs |-> "idle"]
    /\ req = [p \in Procs |-> None]
    /\ loc = [p \in Procs |-> None]
    /\ resp = [p \in Procs |-> None]
    /\ lastStart = [n \in Npubs |-> None]
    /\ unsaved = {}
    /\ lastConfirm = [n \in Npubs |-> None]

Init ==
    /\ NotificationIdle
    /\ NoWindow
    /\ NoLimiter
    /\ proxy = NewProxyTask
    /\ NoRelay
    /\ NoBlossom
    /\ NoTasks

\* the handler returns (status, body)
Finish(p, status, msg) ==
    /\ pc' = [pc EXCEPT ![p] = "done"]
    /\ resp' = [resp EXCEPT ![p] = Some([status |-> status, msg |-> msg])]

Goto(p, label) ==
    /\ pc' = [pc EXCEPT ![p] = label]
    /\ UNCHANGED resp

R(p) == Unwrap(req[p])
L(p) == Unwrap(loc[p])

\* A finished handler's response leaves before anything else is scheduled:
\* Return reads and writes nothing shared, so taking it first loses no
\* interleaving of the store and email steps.
Quiet == \A q \in Procs : pc[q] # "done"

\* time passes
Tick(d) ==
    /\ Quiet
    /\ ticks < MaxTicks
    /\ now' = now + d
    /\ ticks' = ticks + 1
    /\ UNCHANGED <<store, nextChallenge, nextToken, pc, req, loc, resp, lastStart, unsaved, lastConfirm>>
    /\ UNCHANGED outside

\* the response has gone out and the task ends
Return(p) ==
    /\ pc[p] = "done"
    /\ pc' = [pc EXCEPT ![p] = "idle"]
    /\ req' = [req EXCEPT ![p] = None]
    /\ loc' = [loc EXCEPT ![p] = None]
    /\ resp' = [resp EXCEPT ![p] = None]
    /\ UNCHANGED <<clock, store, nextChallenge, nextToken, lastStart, unsaved,
                   lastConfirm>>
    /\ UNCHANGED outside

\* ------------------------------------------------------ notification_store.rs
\* an insert that leaves an existing row as it is
insert_challenge_unless_present(npub, challenge) ==
    challenges' = [challenges EXCEPT
                     ![npub] = IF IsSome(@) THEN @
                               ELSE Some([challenge |-> challenge,
                                          created_at |-> now])]

\* INSERT .. ON CONFLICT (npub) DO UPDATE SET challenge, created_at = NOW()
insert_challenge_for_npub(npub, challenge) ==
    challenges' = [challenges EXCEPT
                     ![npub] = Some([challenge |-> challenge, created_at |-> now])]

get_challenge_for_npub(npub) ==
    IF IsSome(challenges[npub])
    THEN Some([npub |-> npub,
               challenge |-> Unwrap(challenges[npub]).challenge,
               created_at |-> Unwrap(challenges[npub]).created_at])
    ELSE None

\* a DELETE without the WHERE clause
remove_every_challenge(npub) ==
    challenges' = [n \in Npubs |-> None]

remove_challenge_for_npub(npub) ==
    challenges' = [challenges EXCEPT ![npub] = None]

\* -------------------------------------------------------------- start
\* validate, rate-limit, draw the challenge            (mod.rs 153-185)
StartBegin(p, npub, allowed) ==
    /\ Quiet
    /\ pc[p] = "idle"
    /\ req' = [req EXCEPT ![p] = Some([h |-> "start", npub |-> npub])]
    /\ IF validate_npub(npub) = None
       THEN /\ Finish(p, 400, "Invalid npub")
            /\ UNCHANGED <<loc, nextChallenge>>
       ELSE IF ~allowed
       THEN /\ Finish(p, 429, "Please try again later")
            /\ UNCHANGED <<loc, nextChallenge>>
       ELSE /\ nextChallenge <= MaxChallenges
            /\ loc' = [loc EXCEPT ![p] = Some([challenge |-> nextChallenge])]
            /\ nextChallenge' = nextChallenge + 1
            /\ Goto(p, "start_insert")
    /\ UNCHANGED <<clock, store, nextToken, lastStart, unsaved, lastConfirm>>
    /\ UNCHANGED outside

\* a start that surfaces the failure to persist
StartInsertOrFail(p, ok) ==
    /\ Quiet
    /\ pc[p] = "start_insert"
    /\ IF ok
       THEN /\ insert_challenge_for_npub(R(p).npub, L(p).challenge)
            /\ lastStart' = [lastStart EXCEPT ![R(p).npub] = Some(L(p).challenge)]
            /\ UNCHANGED unsaved
            /\ pc' = [pc EXCEPT ![p] = "done"]
            /\ resp' = [resp EXCEPT ![p] =
                          Some([status |-> 200, msg |-> "challenge",
                                challenge |-> L(p).challenge,
                                ttl_seconds |-> CHALLENGE_EXPIRY_SECONDS])]
       ELSE /\ Finish(p, 500, "challenge error")
            /\ UNCHANGED <<challenges, lastStart, unsaved>>
    /\ UNCHANGED <<clock, verification, preferences, nextChallenge, nextToken,
                   req, loc, lastConfirm>>
    /\ UNCHANGED outside

\* persist the challenge; a failure is logged only      (mod.rs 187-203)
StartInsert(p, ok) ==
    /\ Quiet
    /\ pc[p] = "start_insert"
    /\ IF ok
       THEN /\ insert_challenge_for_npub(R(p).npub, L(p).challenge)
            /\ lastStart' = [lastStart EXCEPT ![R(p).npub] = Some(L(p).challenge)]
            /\ UNCHANGED unsaved
       ELSE /\ unsaved' = unsaved \cup {L(p).challenge}
            /\ UNCHANGED <<challenges, lastStart>>
    /\ pc' = [pc EXCEPT ![p] = "done"]
    /\ resp' = [resp EXCEPT ![p] =
                  Some([status |-> 200, msg |-> "challenge",
                        challenge |-> L(p).challenge,
                        ttl_seconds |-> CHALLENGE_EXPIRY_SECONDS])]
    /\ UNCHANGED <<clock, verification, preferences, nextChallenge, nextToken,
                   req, loc, lastConfirm>>
    /\ UNCHANGED outside

\* an upsert that writes the preferences row enabled
insert_enabled_preferences(npub, email, confirmation_token, preferences_token, ebill_url, flags) ==
    /\ verification' = [verification EXCEPT
          ![npub] = Some([email |-> email, token |-> confirmation_token,
                          confirmed |-> FALSE, sent_at |-> now])]
    /\ preferences' = [preferences EXCEPT
          ![npub] = Some([enabled |-> TRUE, token |-> preferences_token,
                          email |-> email, email_confirmed |-> FALSE,
                          ebill_url |-> ebill_url, flags |-> flags])]

\* an upsert that leaves enabled and email_confirmed of an existing row alone
insert_keeping_enabled_and_email_confirmed(npub, email, confirmation_token, preferences_token, ebill_url, flags) ==
    /\ verification' = [verification EXCEPT
          ![npub] = Some([email |-> email, token |-> confirmation_token,
                          confirmed |-> FALSE, sent_at |-> now])]
    /\ preferences' = [preferences EXCEPT
          ![npub] = Some([enabled |-> IF IsSome(preferences[npub])
                                      THEN Unwrap(preferences[npub]).enabled
                                      ELSE FALSE,
                          token |-> preferences_token, email |-> email,
                          email_confirmed |->
                              IF IsSome(preferences[npub])
                              THEN Unwrap(preferences[npub]).email_confirmed
                              ELSE FALSE,
                          ebill_url |-> ebill_url, flags |-> flags])]

\* an upsert that leaves the tokens of existing rows alone
insert_keeping_tokens(npub, email, confirmation_token, preferences_token, ebill_url, flags) ==
    /\ verification' = [verification EXCEPT
          ![npub] = Some([email |-> email,
                          token |-> IF IsSome(verification[npub])
                                    THEN Unwrap(verification[npub]).token
                                    ELSE confirmation_token,
                          confirmed |-> FALSE, sent_at |-> now])]
    /\ preferences' = [preferences EXCEPT
          ![npub] = Some([enabled |-> FALSE,
                          token |-> IF IsSome(preferences[npub])
                                    THEN Unwrap(preferences[npub]).token
                                    ELSE preferences_token,
                          email |-> email, email_confirmed |-> FALSE,
                          ebill_url |-> ebill_url, flags |-> flags])]

\* INSERT ... ON CONFLICT (npub) DO UPDATE, both tables, one transaction
insert_confirmation_email_sent_and_preferences_for_npub(npub, email, confirmation_token, preferences_token, ebill_url, flags) ==
    /\ verification' = [verification EXCEPT
          ![npub] = Some([email |-> email, token |-> confirmation_token,
                          confirmed |-> FALSE, sent_at |-> now])]
    /\ preferences' = [preferences EXCEPT
          ![npub] = Some([enabled |-> FALSE, token |-> preferences_token,
                          email |-> email, email_confirmed |-> FALSE,
                          ebill_url |-> ebill_url, flags |-> flags])]

\* ------------------------------------------------------------ register
challenge_expired(t, challenge) ==
    t > challenge.created_at + CHALLENGE_EXPIRY_SECONDS

\* validate, rate-limit, load the challenge, check its age and the signature
\*                                                       (mod.rs 207-300, 374-390)
RegisterBegin(p, npub, email, sig, ebill_url, allowed, readOk) ==
    /\ Quiet
    /\ pc[p] = "idle"
    /\ req' = [req EXCEPT ![p] = Some([h |-> "register", npub |-> npub,
                  email |-> email, signed_challenge |-> sig,
                  ebill_url |-> ebill_url])]
    /\ IF validate_npub(npub) = None
       THEN Finish(p, 400, "Invalid npub") /\ UNCHANGED loc
       ELSE IF ~email_is_valid(email)
       THEN Finish(p, 400, "Invalid email") /\ UNCHANGED loc
       ELSE IF ~allowed
       THEN Finish(p, 429, "Please try again later") /\ UNCHANGED loc
       ELSE IF ~readOk
       THEN Finish(p, 500, "challenge error") /\ UNCHANGED loc
       ELSE IF get_challenge_for_npub(npub) = None
       THEN Finish(p, 400, "No challenge existing") /\ UNCHANGED loc
       ELSE LET challenge == Unwrap(get_challenge_for_npub(npub))
                x_only == Unwrap(validate_npub(npub))
                verified == verify_signature(challenge.challenge, sig, x_only)
            IN  IF challenge_expired(now, challenge)
                THEN Finish(p, 400, "challenge expired") /\ UNCHANGED loc
                ELSE IF verified = "true"
                THEN /\ loc' = [loc EXCEPT ![p] = Some([challenge |-> challenge,
                                   now |-> now, email_confirmation_token |-> 0,
                                   preferences_token |-> 0])]
                     /\ Goto(p, "reg_remove")
                ELSE IF verified = "false"
                THEN Finish(p, 400, "invalid challenge") /\ UNCHANGED loc
                ELSE Finish(p, 400, "error checking challenge") /\ UNCHANGED loc
    /\ UNCHANGED <<clock, store, nextChallenge, nextToken, lastStart, unsaved,
                   lastConfirm>>
    /\ UNCHANGED outside

\* delete the consumed challenge (a failure is warned and swallowed), draw
\* the confirmation token                                 (mod.rs 301-313)
RegisterRemove(p, ok) ==
    /\ Quiet
    /\ pc[p] = "reg_remove"
    /\ nextToken <= MaxTokens
    /\ IF ok THEN remove_challenge_for_npub(L(p).challenge.npub)
             ELSE UNCHANGED challenges
    /\ loc' = [loc EXCEPT ![p] =
                 Some([L(p) EXCEPT !.email_confirmation_token = nextToken])]
    /\ nextToken' = nextToken + 1
    /\ Goto(p, "reg_email")
    /\ UNCHANGED <<clock, verification, preferences, nextChallenge, req, lastStart, unsaved, lastConfirm>>
    /\ UNCHANGED outside

\* build and send the confirmation mail, draw the preferences token
\*                                                        (mod.rs 314-342)
RegisterEmail(p, ok) ==
    /\ Quiet
    /\ pc[p] = "reg_email"
    /\ IF ~ok
       THEN /\ Finish(p, 500, "send mail confirmation error")
            /\ UNCHANGED <<loc, nextToken>>
       ELSE /\ nextToken <= MaxTokens
            /\ loc' = [loc EXCEPT ![p] =
                         Some([L(p) EXCEPT !.preferences_token = nextToken])]
            /\ nextToken' = nextToken + 1
            /\ Goto(p, "reg_persist")
    /\ UNCHANGED <<clock, store, nextChallenge, req, lastStart, unsaved, lastConfirm>>
    /\ UNCHANGED outside

\* a persist outside a transaction: the first statement stays when the
\* second fails
RegisterPersistInHalves(p, ok) ==
    /\ Quiet
    /\ pc[p] = "reg_persist"
    /\ IF ~ok
       THEN /\ Finish(p, 500, "mail confirmation error")
            /\ verification' = [verification EXCEPT
                  ![L(p).challenge.npub] =
                     Some([email |-> R(p).email,
                           token |-> L(p).email_confirmation_token,
                           confirmed |-> FALSE, sent_at |-> now])]
            /\ UNCHANGED <<preferences, lastConfirm>>
       ELSE /\ insert_confirmation_email_sent_and_preferences_for_npub(
                 L(p).challenge.npub, R(p).email,
                 L(p).email_confirmation_token, L(p).preferences_token,
                 R(p).ebill_url, PreferencesFlags_default)
            /\ lastConfirm' = [lastConfirm EXCEPT ![L(p).challenge.npub] = None]
            /\ Finish(p, 200, "preferences_token")
    /\ UNCHANGED <<clock, challenges, nextChallenge, nextToken, req, loc,
                   lastStart, unsaved>>
    /\ UNCHANGED outside

\* persist the confirmation row and the preferences stub in one transaction
\*                                                        (mod.rs 344-372)
RegisterPersist(p, ok) ==
    /\ Quiet
    /\ pc[p] = "reg_persist"
    /\ IF ~ok
       THEN /\ Finish(p, 500, "mail confirmation error")
            /\ UNCHANGED <<verification, preferences, lastConfirm>>
       ELSE /\ insert_confirmation_email_sent_and_preferences_for_npub(
                 L(p).challenge.npub, R(p).email,
                 L(p).email_confirmation_token, L(p).preferences_token,
                 R(p).ebill_url, PreferencesFlags_default)
            /\ lastConfirm' = [lastConfirm EXCEPT ![L(p).challenge.npub] = None]
            /\ Finish(p, 200, "preferences_token")
    /\ UNCHANGED <<clock, challenges, nextChallenge, nextToken, req, loc,
                   lastStart, unsaved>>
    /\ UNCHANGED outside

get_confirmation_email_state_for_token(token) ==
    LET rows == {n \in Npubs : /\ IsSome(verification[n])
                               /\ Unwrap(verification[n]).token = token}
    IN  IF rows = {} THEN None
        ELSE LET n == CHOOSE n \in rows : TRUE
                 db == Unwrap(verification[n])
             IN  Some([npub |-> n, email |-> db.email,
                       confirmed |-> db.confirmed, sent_at |-> db.sent_at])

\* DELETE the confirmation row, UPDATE the preferences row, one transaction
set_confirmation_email_confirmed_for_npub(npub) ==
    /\ verification' = [verification EXCEPT ![npub] = None]
    /\ preferences' = [preferences EXCEPT ![npub] =
          IF IsSome(preferences[npub])
          THEN Some([Unwrap(preferences[npub]) EXCEPT
                       !.email_confirmed = TRUE, !.enabled = TRUE])
          ELSE None]

EmailPreferencesOf(n) ==
    LET db == Unwrap(preferences[n])
    IN  [npub |-> n, enabled |-> db.enabled, token |-> db.token,
         email |-> db.email, email_confirmed |-> db.email_confirmed,
         ebill_url |-> db.ebill_url, flags |-> from_bits_truncate(db.flags)]

get_email_preferences_for_npub(npub) ==
    IF IsSome(preferences[npub]) THEN Some(EmailPreferencesOf(npub)) ELSE None

get_email_preferences_for_token(token) ==
    LET rows == {n \in Npubs : /\ IsSome(preferences[n])
                               /\ Unwrap(preferences[n]).token = token}
    IN  IF rows = {} THEN None
        ELSE Some(EmailPreferencesOf(CHOOSE n \in rows : TRUE))

\* an UPDATE without the WHERE clause
update_email_preferences_for_every_token(token, enabled, flags) ==
    preferences' = [n \in Npubs |->
        IF IsSome(preferences[n])
        THEN Some([Unwrap(preferences[n]) EXCEPT
                     !.enabled = enabled, !.flags = flags])
        ELSE preferences[n]]

\* an UPDATE that binds the form's enabled to email_confirmed as well
update_email_preferences_and_confirmation(token, enabled, flags) ==
    preferences' = [n \in Npubs |->
        IF IsSome(preferences[n]) /\ Unwrap(preferences[n]).token = token
        THEN Some([Unwrap(preferences[n]) EXCEPT
                     !.enabled = enabled, !.flags = flags,
                     !.email_confirmed = enabled])
        ELSE preferences[n]]

\* UPDATE ... SET enabled, flags WHERE token = $1
update_email_preferences_for_token(token, enabled, flags) ==
    preferences' = [n \in Npubs |->
        IF IsSome(preferences[n]) /\ Unwrap(preferences[n]).token = token
        THEN Some([Unwrap(preferences[n]) EXCEPT
                     !.enabled = enabled, !.flags = flags])
        ELSE preferences[n]]

\* --------------------------------------------------------- confirm_email
\* a confirmation that never expires
confirmation_never_expires(t, email_confirmation) == FALSE

confirmation_expired(t, email_confirmation) ==
    t > email_confirmation.sent_at + EMAIL_CONFIRMATION_EXPIRY_SECONDS

\* decode the token, look the confirmation up, check age and state
\*                                                        (mod.rs 545-598)
ConfirmBegin(p, token, readOk) ==
    /\ Quiet
    /\ pc[p] = "idle"
    /\ req' = [req EXCEPT ![p] = Some([h |-> "confirm_email", token |-> token])]
    /\ IF ~base64_decodes(token)
       THEN Finish(p, 400, "invalid token") /\ UNCHANGED loc
       ELSE IF ~readOk \/ get_confirmation_email_state_for_token(token) = None
       THEN Finish(p, 400, "invalid token") /\ UNCHANGED loc
       ELSE LET email_confirmation ==
                    Unwrap(get_confirmation_email_state_for_token(token))
            IN  IF confirmation_expired(now, email_confirmation)
                THEN Finish(p, 400, "token expired") /\ UNCHANGED loc
                ELSE IF email_confirmation.confirmed
                THEN Finish(p, 400, "email already confirmed") /\ UNCHANGED loc
                ELSE /\ loc' = [loc EXCEPT ![p] =
                           Some([email_confirmation |-> email_confirmation,
                                 now |-> now, email_preferences |-> None])]
                     /\ Goto(p, "conf_prefs")
    /\ UNCHANGED <<clock, store, nextChallenge, nextToken, lastStart, unsaved,
                   lastConfirm>>
    /\ UNCHANGED outside

\* load the preferences of the confirmation's npub, compare the emails
\*                                                        (mod.rs 600-627)
ConfirmPrefs(p, readOk) ==
    /\ Quiet
    /\ pc[p] = "conf_prefs"
    /\ LET found == get_email_preferences_for_npub(L(p).email_confirmation.npub)
       IN  IF ~readOk \/ found = None
           THEN Finish(p, 400, "invalid token") /\ UNCHANGED loc
           ELSE /\ loc' = [loc EXCEPT ![p] =
                            Some([L(p) EXCEPT !.email_preferences = found])]
                /\ IF L(p).email_confirmation.email # Unwrap(found).email
                   THEN Finish(p, 400, "invalid email")
                   ELSE Goto(p, "conf_commit")
    /\ UNCHANGED <<clock, store, nextChallenge, nextToken, req, lastStart, unsaved,
                   lastConfirm>>
    /\ UNCHANGED outside

\* set to confirmed                                       (mod.rs 629-645)
ConfirmCommit(p, ok) ==
    /\ Quiet
    /\ pc[p] = "conf_commit"
    /\ IF ~ok
       THEN /\ Finish(p, 500, "internal server error")
            /\ UNCHANGED <<verification, preferences, lastConfirm>>
       ELSE /\ set_confirmation_email_confirmed_for_npub(
                 L(p).email_confirmation.npub)
            /\ lastConfirm' = [lastConfirm EXCEPT
                 ![L(p).email_confirmation.npub] =
                     Some([email |-> L(p).email_confirmation.email,
                           token |-> R(p).token])]
            /\ Finish(p, 200, "Success! Email Confirmed")
    /\ UNCHANGED <<clock, challenges, nextChallenge, nextToken, req, loc,
                   lastStart, unsaved>>
    /\ UNCHANGED outside

\* ----------------------------------------------------------- preferences
\*                                                        (mod.rs 647-706)
PreferencesGet(p, token, readOk) ==
    /\ Quiet
    /\ pc[p] = "idle"
    /\ req' = [req EXCEPT ![p] = Some([h |-> "preferences", token |-> token])]
    /\ IF ~base64_decodes(token)
       THEN Finish(p, 400, "invalid token") /\ UNCHANGED loc
       ELSE IF ~readOk \/ get_email_preferences_for_token(token) = None
       THEN Finish(p, 400, "invalid token") /\ UNCHANGED loc
       ELSE LET email_preferences ==
                    Unwrap(get_email_preferences_for_token(token))
            IN  IF ~email_preferences.email_confirmed
                THEN /\ Finish(p, 400, "email has to be confirmed")
                     /\ UNCHANGED loc
                ELSE /\ loc' = [loc EXCEPT ![p] =
                           Some([email_preferences |-> email_preferences])]
                     /\ Finish(p, 200, "Email Preferences")
    /\ UNCHANGED <<clock, store, nextChallenge, nextToken, lastStart, unsaved,
                   lastConfirm>>
    /\ UNCHANGED outside

\* ---------------------------------------------------- update_preferences
\* the form's enabled field: Some("on") is true, anything else false
form_enabled(enabled) == IF IsSome(enabled) THEN Unwrap(enabled) = "on" ELSE FALSE

RECURSIVE fold_flags(_, _)
fold_flags(flags, i) ==
    IF i = 0 THEN 0
    ELSE LET parsed == from_bits(flags[i])
             before == fold_flags(flags, i - 1)
         IN  IF IsSome(parsed) THEN FlagsOr(before, Unwrap(parsed)) ELSE before

\* PreferencesFlags::empty() |= every entry that from_bits accepts
updated_flags_of(flags) ==
    IF IsSome(flags) THEN fold_flags(Unwrap(flags), Len(Unwrap(flags))) ELSE 0

\* decode the token, load the row, require a confirmed email, read the form
\*                                                        (mod.rs 708-765)
UpdateBegin(p, token, enabled, flags, readOk) ==
    /\ Quiet
    /\ pc[p] = "idle"
    /\ req' = [req EXCEPT ![p] = Some([h |-> "update_preferences",
                  token |-> token, enabled |-> enabled, flags |-> flags])]
    /\ IF ~base64_decodes(token)
       THEN Finish(p, 400, "invalid token") /\ UNCHANGED loc
       ELSE IF ~readOk \/ get_email_preferences_for_token(token) = None
       THEN Finish(p, 400, "invalid token") /\ UNCHANGED loc
       ELSE LET email_preferences ==
                    Unwrap(get_email_preferences_for_token(token))
            IN  IF ~email_preferences.email_confirmed
                THEN /\ Finish(p, 400, "email has to be confirmed")
                     /\ UNCHANGED loc
                ELSE /\ loc' = [loc EXCEPT ![p] =
                           Some([email_preferences |-> email_preferences,
                                 enabled |-> form_enabled(enabled),
                                 updated_flags |-> updated_flags_of(flags)])]
                     /\ Goto(p, "upd_write")
    /\ UNCHANGED <<clock, store, nextChallenge, nextToken, lastStart, unsaved,
                   lastConfirm>>
    /\ UNCHANGED outside

\* write enabled and flags, redirect                      (mod.rs 767-782)
UpdateWrite(p, ok) ==
    /\ Quiet
    /\ pc[p] = "upd_write"
    /\ IF ~ok
       THEN /\ Finish(p, 500, "could not save changes")
            /\ UNCHANGED preferences
       ELSE /\ update_email_preferences_for_token(
                 R(p).token, L(p).enabled, L(p).updated_flags)
            /\ Finish(p, 303, "/notifications/preferences/{token}")
    /\ UNCHANGED <<clock, challenges, verification, nextChallenge, nextToken,
                   req, loc, lastStart, unsaved, lastConfirm>>
    /\ UNCHANGED outside

\* ------------------------------------------------------------------ send
starts_with(id, prefix) ==
    /\ Len(id) >= Len(prefix)
    /\ SubSeq(id, 1, Len(prefix)) = prefix

\* an id check without the prefix
id_is_nonempty(id) == id # <<>>

id_is_valid(id) == ~(id = <<>> \/ ~starts_with(id, BITCR_PREFIX))

\* validate, rate-limit, check kind, id and signature, resolve the receiver's
\* preferences                                            (mod.rs 393-493, 525-541)
SendBegin(p, payload, signature, allowed, readOk) ==
    /\ Quiet
    /\ pc[p] = "idle"
    /\ req' = [req EXCEPT ![p] = Some([h |-> "send", payload |-> payload,
                                        signature |-> signature,
                                        allowed |-> allowed])]
    /\ IF validate_npub(payload.receiver) = None
       THEN Finish(p, 400, "Invalid receiver npub") /\ UNCHANGED loc
       ELSE IF validate_npub(payload.sender) = None
       THEN Finish(p, 400, "Invalid sender npub") /\ UNCHANGED loc
       ELSE IF ~allowed
       THEN Finish(p, 429, "Please try again later") /\ UNCHANGED loc
       ELSE IF from_name(payload.kind) = None
       THEN Finish(p, 400, "Invalid kind") /\ UNCHANGED loc
       ELSE IF ~id_is_valid(payload.id)
       THEN Finish(p, 400, "Invalid ID") /\ UNCHANGED loc
       ELSE LET x_only_sender == Unwrap(validate_npub(payload.sender))
                notification_type == Unwrap(from_name(payload.kind))
                verified == verify_request(payload, signature, x_only_sender)
                found == get_email_preferences_for_npub(payload.receiver)
            IN  IF verified = "false"
                THEN Finish(p, 400, "invalid signature") /\ UNCHANGED loc
                ELSE IF verified = "err"
                THEN Finish(p, 400, "error checking signature") /\ UNCHANGED loc
                ELSE IF ~readOk
                THEN Finish(p, 500, "Error sending email") /\ UNCHANGED loc
                ELSE IF found = None
                THEN Finish(p, 200, "OK") /\ UNCHANGED loc
                ELSE IF ~Unwrap(found).enabled
                THEN Finish(p, 200, "OK") /\ UNCHANGED loc
                ELSE IF ~contains(Unwrap(found).flags, notification_type)
                THEN Finish(p, 200, "OK") /\ UNCHANGED loc
                ELSE /\ loc' = [loc EXCEPT ![p] =
                           Some([email_preferences |-> Unwrap(found),
                                 notification_type |-> notification_type])]
                     /\ Goto(p, "send_email")
    /\ UNCHANGED <<clock, store, nextChallenge, nextToken, lastStart, unsaved,
                   lastConfirm>>
    /\ UNCHANGED outside

\* build the notification mail and hand it to the email service
\*                                                        (mod.rs 495-523)
SendEmail(p, built, ok) ==
    /\ Quiet
    /\ pc[p] = "send_email"
    /\ IF ~built THEN Finish(p, 500, "send mail confirmation error")
       ELSE IF ~ok THEN Finish(p, 500, "Error sending mail")
       ELSE Finish(p, 200, "OK")
    /\ UNCHANGED <<clock, store, nextChallenge, nextToken, req, loc, lastStart, unsaved,
                   lastConfirm>>
    /\ UNCHANGED outside

\* ------------------------------------------------------------ the requests
\* Requests as clients send them.  A well-formed request has a valid npub and
\* email, passes the rate limiter and carries a signature made with the
\* npub's own key; the others each break one of the handler's checks.
Challenges == 1..MaxChallenges
Tokens == 1..MaxTokens

StartRequests(full) ==
    {[npub |-> n, allowed |-> TRUE] : n \in Npubs}
    \cup (IF full THEN {[npub |-> BadNpub, allowed |-> TRUE]}
                       \cup {[npub |-> n, allowed |-> FALSE] : n \in Npubs}
          ELSE {})

RegisterWellFormed(emails) ==
    {[npub |-> n, email |-> e, signed_challenge |-> Sign(XOnly(n), c),
      ebill_url |-> u, allowed |-> TRUE, readOk |-> TRUE] :
        n \in Npubs, e \in emails, c \in Challenges, u \in EbillUrls}

RegisterRequests(full, emails) ==
    LET wf == RegisterWellFormed(emails)
    IN  wf
        \cup (IF full
              THEN {[r EXCEPT !.npub = BadNpub] : r \in wf}
                   \cup {[r EXCEPT !.email = BadEmail] : r \in wf}
                   \cup {[r EXCEPT !.allowed = FALSE] : r \in wf}
                   \cup {[r EXCEPT !.readOk = FALSE] : r \in wf}
                   \cup {[r EXCEPT !.signed_challenge = Sign(k, c)] :
                           r \in wf, k \in Keys, c \in Challenges}
                   \cup {[r EXCEPT !.signed_challenge = Malformed(0)] : r \in wf}
              ELSE {})

TokenRequests(full) ==
    {[token |-> t, readOk |-> TRUE] : t \in Tokens}
    \cup (IF full THEN {[token |-> BadToken, readOk |-> TRUE]}
                       \cup {[token |-> t, readOk |-> FALSE] : t \in Tokens}
          ELSE {})

Faults(full) == IF full THEN BOOLEAN ELSE {TRUE}

ValidId == BITCR_PREFIX \o <<"t", "B", "7">>
Signed(payload) ==
    [payload |-> payload,
     signature |-> Sign(XOnly(payload.sender), borsh_to_vec(payload)),
     allowed |-> TRUE, readOk |-> TRUE]

SendWellFormed(kinds) ==
    {Signed([kind |-> k, id |-> ValidId, receiver |-> r, sender |-> s]) :
        k \in kinds, r \in Npubs, s \in Npubs}

SendRequests(full) ==
    IF ~full THEN SendWellFormed({"BillSigned"})
    ELSE LET wf == SendWellFormed({"BillSigned", "BillSold"})
         IN  wf
             \cup {Signed([r.payload EXCEPT !.receiver = BadNpub]) : r \in wf}
             \cup {Signed([r.payload EXCEPT !.sender = BadNpub]) : r \in wf}
             \cup {Signed([r.payload EXCEPT !.kind = "Invoice"]) : r \in wf}
             \cup {Signed([r.payload EXCEPT !.id = i]) :
                     r \in wf, i \in {<<>>, <<"x">>, <<"b", "i", "t">>,
                                      <<"x">> \o BITCR_PREFIX, BITCR_PREFIX}}
             \cup {[r EXCEPT !.allowed = FALSE] : r \in wf}
             \cup {[r EXCEPT !.readOk = FALSE] : r \in wf}
             \cup {[r EXCEPT !.signature =
                      Sign(k, borsh_to_vec(r.payload))] : r \in wf, k \in Keys}
             \cup {[r EXCEPT !.signature =
                      Sign(XOnly(r.payload.sender),
                           borsh_to_vec([r.payload EXCEPT !.id = BITCR_PREFIX]))] :
                     r \in wf}
             \cup {[r EXCEPT !.signature = Malformed(<<>>)] : r \in wf}

\* the form: enabled is absent, "on" or something else; flags is absent or a
\* list of i64 (1 << 21 = 2097152 is the first bit that is no flag)
FormEnabled == {None, Some("on"), Some("off")}
FormFlags == {None, Some(<<1, 2097152>>), Some(<<3, 2097153, -1>>)}

\* every form with every token; the requests whose token does not decode or
\* whose lookup fails carry one form
UpdateRequests(full) ==
    {[token |-> t, readOk |-> TRUE, enabled |-> e, flags |-> f] :
        t \in Tokens, e \in FormEnabled, f \in FormFlags}
    \cup {[token |-> r.token, readOk |-> r.readOk, enabled |-> Some("on"),
           flags |-> Some(<<1, 2097152>>)] : r \in TokenRequests(full)}

StartSteps(P, full) ==
    \/ \E p \in P, r \in StartRequests(full) : StartBegin(p, r.npub, r.allowed)
    \/ \E p \in P, ok \in Faults(full) : StartInsert(p, ok)

\* persist: the outcomes of the transaction that writes the two rows
RegisterSteps(P, full, emails, persist) ==
    \/ \E p \in P, r \in RegisterRequests(full, emails) :
          RegisterBegin(p, r.npub, r.email, r.signed_challenge, r.ebill_url,
                        r.allowed, r.readOk)
    \/ \E p \in P, ok \in Faults(full) : RegisterRemove(p, ok)
    \/ \E p \in P, ok \in Faults(full) : RegisterEmail(p, ok)
    \/ \E p \in P, ok \in persist : RegisterPersist(p, ok)

ConfirmSteps(P, full) ==
    \/ \E p \in P, r \in TokenRequests(full) : ConfirmBegin(p, r.token, r.readOk)
    \/ \E p \in P, ok \in Faults(full) : ConfirmPrefs(p, ok)
    \/ \E p \in P, ok \in Faults(full) : ConfirmCommit(p, ok)

PreferencesSteps(P, full) ==
    \/ \E p \in P, r \in TokenRequests(full) : PreferencesGet(p, r.token, r.readOk)
    \/ \E p \in P, r \in UpdateRequests(full) :
          UpdateBegin(p, r.token, r.enabled, r.flags, r.readOk)
    \/ \E p \in P, ok \in Faults(full) : UpdateWrite(p, ok)

SendSteps(P, full) ==
    \/ \E p \in P, r \in SendRequests(full) :
          SendBegin(p, r.payload, r.signature, r.allowed, r.readOk)
    \/ \E p \in P, built \in Faults(full), ok \in Faults(full) :
          SendEmail(p, built, ok)

Returns == \E p \in Procs : Return(p)
Ticks(steps) == \E d \in steps : Tick(d)

\* start, register and confirm_email requests of concurrent tasks, their
\* store and email steps interleaved
Next ==
    \/ Returns
    \/ StartSteps(Procs, FALSE)
    \/ RegisterSteps(Procs, FALSE, Emails, {TRUE})
    \/ ConfirmSteps(Procs, FALSE)

Spec == Init /\ [][Next]_vars

\* one task: every kind of start and register request, store and email
\* faults, and the clock passing the challenge expiry
NextChallenge ==
    \/ Returns
    \/ Ticks(ChallengeTicks)
    \/ StartSteps({1}, TRUE)
    \/ RegisterSteps({1}, TRUE, {"a@x.co"}, BOOLEAN)

SpecChallenge == Init /\ [][NextChallenge]_vars

\* registration traffic on one task with a persist that can fail, every kind
\* of confirm_email request on another with store faults, and the clock
\* passing the confirmation expiry
NextConfirm ==
    \/ Returns
    \/ Ticks(ConfirmationTicks)
    \/ StartSteps({1}, FALSE)
    \/ RegisterSteps({1}, FALSE, Emails, BOOLEAN)
    \/ ConfirmSteps({2}, TRUE)

SpecConfirm == Init /\ [][NextConfirm]_vars

\* registration traffic on one task, every kind of send request on another
NextSend ==
    \/ Returns
    \/ StartSteps({1}, FALSE)
    \/ RegisterSteps({1}, FALSE, Emails, {TRUE})
    \/ ConfirmSteps({1}, FALSE)
    \/ SendSteps({2}, TRUE)

SpecSend == Init /\ [][NextSend]_vars

\* registration traffic on one task, every kind of preferences and
\* update_preferences request on another
NextPrefs ==
    \/ Returns
    \/ StartSteps({1}, FALSE)
    \/ RegisterSteps({1}, FALSE, {"a@x.co"}, {TRUE})
    \/ ConfirmSteps({1}, FALSE)
    \/ PreferencesSteps({2}, TRUE)

SpecPrefs == Init /\ [][NextPrefs]_vars

\* registration traffic on one task; preferences, update_preferences and
\* send requests on another, with store and email faults
NextAccount ==
    \/ Returns
    \/ StartSteps({1}, FALSE)
    \/ RegisterSteps({1}, FALSE, {"a@x.co"}, {TRUE})
    \/ ConfirmSteps({1}, FALSE)
    \/ PreferencesSteps({2}, TRUE)
    \/ SendSteps({2}, TRUE)

SpecAccount == Init /\ [][NextAccount]_vars

\* The tables outlive the process (CREATE TABLE IF NOT EXISTS, flags BIGINT):
\* at start the preferences table can hold a confirmed row whose flags were
\* written by another build, with bits this build has no name for.
StoredFlags == {1, 2 ^ 21 + 1, 2 ^ 22 + 2 ^ 17}
StoredToken == 1

InitStored ==
    /\ now = 0
    /\ ticks = 0
    /\ challenges = [n \in Npubs |-> None]
    /\ verification = [n \in Npubs |-> None]
    /\ \E f \in StoredFlags, e \in BOOLEAN, m \in Emails :
          preferences = [n \in Npubs |->
              IF n = "npub1a"
              THEN Some([enabled |-> e, token |-> StoredToken, email |-> m,
                         email_confirmed |-> TRUE,
                         ebill_url |-> "https://ebill.example/", flags |-> f])
              ELSE None]
    /\ nextChallenge = 1
    /\ NoLimiter
    /\ proxy = NewProxyTask
    /\ NoRelay
    /\ NoBlossom
    /\ NoTasks
    /\ nextToken = StoredToken + 1
    /\ pc = [p \in Procs |-> "idle"]
    /\ req = [p \in Procs |-> None]
    /\ loc = [p \in Procs |-> None]
    /\ resp = [p \in Procs |-> None]
    /\ lastStart = [n \in Npubs |-> None]
    /\ unsaved = {}
    /\ lastConfirm = [n \in Npubs |-> None]
    /\ NoWindow

\* preferences and update_preferences requests against the stored row
NextStored ==
    \/ Returns
    \/ PreferencesSteps({1}, TRUE)

SpecStored == InitStored /\ [][NextStored]_vars

\* ------------------------------------------------------------ rate_limit.rs
\* SlidingWindow::new at time t
SlidingWindow_new(limit, window, t) ==
    [hits |-> <<>>, window |-> window, limit |-> limit, last_seen |-> t]

\* a hit that leaves the window one second early
hit_expired_at_window_end(t, ts, window) == t - ts >= window

\* now - ts > self.window
hit_expired(t, ts, window) == t - ts > window

\* while let Some(&ts) = self.hits.front() { pop_front or break }
RECURSIVE pop_expired(_, _, _)
pop_expired(hits, t, window) ==
    IF hits # <<>> /\ hit_expired(t, Head(hits), window)
    THEN pop_expired(Tail(hits), t, window)
    ELSE hits

\* an allow that records the denied calls too
allow_recording_denied(w, t) ==
    LET kept == pop_expired(w.hits, t, w.window)
        ok == Len(kept) < w.limit
    IN  [window |-> [w EXCEPT !.hits = Append(kept, t), !.last_seen = t],
         allowed |-> ok]

\* an allow that lets one call too many through
allow_one_more(w, t) ==
    LET kept == pop_expired(w.hits, t, w.window)
        ok == Len(kept) <= w.limit
    IN  [window |-> [w EXCEPT !.hits = IF ok THEN Append(kept, t) ELSE kept,
                              !.last_seen = t],
         allowed |-> ok]

\* SlidingWindow::allow: the window after the call and the value returned
allow(w, t) ==
    LET kept == pop_expired(w.hits, t, w.window)
        ok == Len(kept) < w.limit
    IN  [window |-> [w EXCEPT !.hits = IF ok THEN Append(kept, t) ELSE kept,
                              !.last_seen = t],
         allowed |-> ok]

\* one call of allow on the window
WindowAllow(t) ==
    /\ IsSome(slidingWindow)
    /\ LET r == allow(Unwrap(slidingWindow), t)
       IN  /\ slidingWindow' = Some(r.window)
           /\ granted' = IF r.allowed THEN Append(granted, t) ELSE granted
           /\ lastAllow' = Some([t |-> t, allowed |-> r.allowed])
    /\ UNCHANGED <<notification, limiterVars, proxy, relayVars, blossomVars, mutexVars>>

\* the widths and the timestamps tried: the small ones, and the 10 s window
\* and the call 11 s later of test_rate_limiter_resets_after_window
WindowWidths == 0..MaxWindow \cup {10}
Timestamps == 0..MaxTime \cup {11}

\* timestamps that do not decrease from call to call
WindowSteps ==
    \E t \in {x \in Timestamps : x >= Unwrap(slidingWindow).last_seen} :
        WindowAllow(t)

\* a window of any limit and width, created at time 0
InitWindow ==
    /\ NotificationIdle
    /\ \E limit \in 0..MaxLimit, window \in WindowWidths :
          slidingWindow = Some(SlidingWindow_new(limit, window, 0))
    /\ granted = <<>>
    /\ lastAllow = None
    /\ NoLimiter
    /\ proxy = NewProxyTask
    /\ NoRelay
    /\ NoBlossom
    /\ NoTasks

NextWindow ==
    \/ WindowSteps

SpecWindow == InitWindow /\ [][NextWindow]_vars

\* ------------------------------------------------ rate_limit.rs: RateLimiter
\* the keys of the maps: one address, one email in two spellings, one npub
LimiterKeys ==
    [ip |-> {"203.0.113.7"}, email |-> {"a@x.co", "A@x.co"}, npub |-> {"npub1a"}]

to_lowercase(email) == IF email = "A@x.co" THEN "a@x.co" ELSE email

\* a retain that keeps an entry for the prune interval only
retain_for_prune_interval(w, t) == t - w.last_seen <= PRUNE_INTERVAL

\* SlidingWindow::retain
retain(w, t) == t - w.last_seen <= MAX_IDLE

\* map.retain(|_, win| win.retain(now))
retained(map, t) ==
    [k \in DOMAIN map |->
        IF IsSome(map[k]) /\ retain(Unwrap(map[k]), t) THEN map[k] ELSE None]

\* every PRUNE_INTERVAL, remove the idle entries of by_ip, by_email and
\* by_npub_sender
prune_if_needed(l, t) ==
    IF t - l.last_prune < PRUNE_INTERVAL THEN l
    ELSE [l EXCEPT !.last_prune = t,
                   !.by_ip = retained(l.by_ip, t),
                   !.by_email = retained(l.by_email, t),
                   !.by_npub_sender = retained(l.by_npub_sender, t)]

\* map.entry(key).or_insert_with(|| SlidingWindow::new(limit, window)).allow(now)
entry_allow(map, key, limit, window, t) ==
    allow(IF IsSome(map[key]) THEN Unwrap(map[key])
          ELSE SlidingWindow_new(limit, window, t), t)

\* a check that does not fold the case of the email
check_email_as_given(l, t, ip, email, npub_sender, npub_receiver) ==
    LET pruned == prune_if_needed(l, t)
        ip_r == entry_allow(pruned.by_ip, ip, IP_LIMIT, IP_WINDOW, t)
        email_r == entry_allow(pruned.by_email, Unwrap(email),
                               EMAIL_LIMIT, EMAIL_WINDOW, t)
        sender_r == entry_allow(pruned.by_npub_sender, Unwrap(npub_sender),
                                NPUB_LIMIT, NPUB_WINDOW, t)
        receiver_r == entry_allow(pruned.by_npub_receiver, Unwrap(npub_receiver),
                                  NPUB_LIMIT, NPUB_WINDOW, t)
    IN  [limiter |->
            [last_prune |-> pruned.last_prune,
             by_ip |-> [pruned.by_ip EXCEPT ![ip] = Some(ip_r.window)],
             by_email |->
                IF IsSome(email)
                THEN [pruned.by_email EXCEPT
                        ![Unwrap(email)] = Some(email_r.window)]
                ELSE pruned.by_email,
             by_npub_sender |->
                IF IsSome(npub_sender)
                THEN [pruned.by_npub_sender EXCEPT
                        ![Unwrap(npub_sender)] = Some(sender_r.window)]
                ELSE pruned.by_npub_sender,
             by_npub_receiver |->
                IF IsSome(npub_receiver)
                THEN [pruned.by_npub_receiver EXCEPT
                        ![Unwrap(npub_receiver)] = Some(receiver_r.window)]
                ELSE pruned.by_npub_receiver],
         allowed |-> /\ ip_r.allowed
                     /\ (IsSome(email) => email_r.allowed)
                     /\ (IsSome(npub_sender) => sender_r.allowed)
                     /\ (IsSome(npub_receiver) => receiver_r.allowed)]

\* a check that stops at the first dimension that denies
check_until_denied(l, t, ip, email, npub_sender, npub_receiver) ==
    LET pruned == prune_if_needed(l, t)
        key == IF IsSome(email) THEN to_lowercase(Unwrap(email)) ELSE ""
        ip_r == entry_allow(pruned.by_ip, ip, IP_LIMIT, IP_WINDOW, t)
        email_r == entry_allow(pruned.by_email, key, EMAIL_LIMIT, EMAIL_WINDOW, t)
        sender_r == entry_allow(pruned.by_npub_sender, Unwrap(npub_sender),
                                NPUB_LIMIT, NPUB_WINDOW, t)
        receiver_r == entry_allow(pruned.by_npub_receiver, Unwrap(npub_receiver),
                                  NPUB_LIMIT, NPUB_WINDOW, t)
        email_ok == ip_r.allowed /\ (IsSome(email) => email_r.allowed)
        sender_ok == email_ok /\ (IsSome(npub_sender) => sender_r.allowed)
    IN  [limiter |->
            [last_prune |-> pruned.last_prune,
             by_ip |-> [pruned.by_ip EXCEPT ![ip] = Some(ip_r.window)],
             by_email |->
                IF IsSome(email) /\ ip_r.allowed
                THEN [pruned.by_email EXCEPT ![key] = Some(email_r.window)]
                ELSE pruned.by_email,
             by_npub_sender |->
                IF IsSome(npub_sender) /\ email_ok
                THEN [pruned.by_npub_sender EXCEPT
                        ![Unwrap(npub_sender)] = Some(sender_r.window)]
                ELSE pruned.by_npub_sender,
             by_npub_receiver |->
                IF IsSome(npub_receiver) /\ sender_ok
                THEN [pruned.by_npub_receiver EXCEPT
                        ![Unwrap(npub_receiver)] = Some(receiver_r.window)]
                ELSE pruned.by_npub_receiver],
         allowed |-> sender_ok /\ (IsSome(npub_receiver) => receiver_r.allowed)]

\* RateLimiter::check: the limiter after the call and the value returned
check(l, t, ip, email, npub_sender, npub_receiver) ==
    LET pruned == prune_if_needed(l, t)
        key == IF IsSome(email) THEN to_lowercase(Unwrap(email)) ELSE ""
        ip_r == entry_allow(pruned.by_ip, ip, IP_LIMIT, IP_WINDOW, t)
        email_r == entry_allow(pruned.by_email, key, EMAIL_LIMIT, EMAIL_WINDOW, t)
        sender_r == entry_allow(pruned.by_npub_sender, Unwrap(npub_sender),
                                NPUB_LIMIT, NPUB_WINDOW, t)
        receiver_r == entry_allow(pruned.by_npub_receiver, Unwrap(npub_receiver),
                                  NPUB_LIMIT, NPUB_WINDOW, t)
    IN  [limiter |->
            [last_prune |-> pruned.last_prune,
             by_ip |-> [pruned.by_ip EXCEPT ![ip] = Some(ip_r.window)],
             by_email |->
                IF IsSome(email)
                THEN [pruned.by_email EXCEPT ![key] = Some(email_r.window)]
                ELSE pruned.by_email,
             by_npub_sender |->
                IF IsSome(npub_sender)
                THEN [pruned.by_npub_sender EXCEPT
                        ![Unwrap(npub_sender)] = Some(sender_r.window)]
                ELSE pruned.by_npub_sender,
             by_npub_receiver |->
                IF IsSome(npub_receiver)
                THEN [pruned.by_npub_receiver EXCEPT
                        ![Unwrap(npub_receiver)] = Some(receiver_r.window)]
                ELSE pruned.by_npub_receiver],
         allowed |-> /\ ip_r.allowed
                     /\ (IsSome(email) => email_r.allowed)
                     /\ (IsSome(npub_sender) => sender_r.allowed)
                     /\ (IsSome(npub_receiver) => receiver_r.allowed)]

\* the check of a limiter that is not due for a prune, whatever its
\* last_prune: the reference that pruning is compared with
check_never_pruning(l, t, ip, email, npub_sender, npub_receiver) ==
    check([l EXCEPT !.last_prune = t], t, ip, email, npub_sender, npub_receiver)

\* a handler locks the limiter and calls check at Utc::now()
Check(ip, email, npub_sender, npub_receiver) ==
    /\ IsSome(limiter)
    /\ IsSome(lastCheck) => Unwrap(lastCheck).n < MaxChecks
    /\ unpruned' = Some(check_never_pruning(Unwrap(unpruned), now, ip, email,
                                            npub_sender, npub_receiver).limiter)
    /\ LET r == check(Unwrap(limiter), now, ip, email, npub_sender, npub_receiver)
       IN  /\ limiter' = Some(r.limiter)
           /\ lastCheck' = Some([ip |-> ip, email |-> email,
                                 npub_sender |-> npub_sender,
                                 npub_receiver |-> npub_receiver,
                                 allowed |-> r.allowed,
                                 n |-> IF IsSome(lastCheck)
                                       THEN Unwrap(lastCheck).n + 1 ELSE 1])
    /\ UNCHANGED <<notification, windowVars, proxy, relayVars, blossomVars, mutexVars>>

\* a window holding n hits made at time 0
Filled(n, limit, window) ==
    [hits |-> [i \in 1..n |-> 0], window |-> window, limit |-> limit,
     last_seen |-> 0]

\* absent, one hit below the limit, at the limit
Fillings(limit, window) ==
    {None, Some(Filled(limit - 1, limit, window)),
     Some(Filled(limit, limit, window))}

\* The limiter at time 0, after the requests served so far: each key absent,
\* one hit below its limit or at its limit. Requests from other addresses
\* fill the email and npub windows without filling this address's.
InitLimiter ==
    /\ NotificationIdle
    /\ NoWindow
    /\ proxy = NewProxyTask
    /\ NoRelay
    /\ NoBlossom
    /\ NoTasks
    /\ \E i \in Fillings(IP_LIMIT, IP_WINDOW),
          e \in Fillings(EMAIL_LIMIT, EMAIL_WINDOW),
          s \in Fillings(NPUB_LIMIT, NPUB_WINDOW),
          r \in Fillings(NPUB_LIMIT, NPUB_WINDOW) :
          limiter = Some([last_prune |-> 0,
                          by_ip |-> [k \in LimiterKeys.ip |-> i],
                          by_email |-> [k \in LimiterKeys.email |->
                                          IF k = to_lowercase(k) THEN e ELSE None],
                          by_npub_sender |-> [k \in LimiterKeys.npub |-> s],
                          by_npub_receiver |-> [k \in LimiterKeys.npub |-> r]])
    /\ lastCheck = None
    /\ unpruned = limiter

\* the clock passing a window, the prune interval and the idle time
LimiterTicks == {IP_WINDOW, IP_WINDOW + 1, MAX_IDLE, MAX_IDLE + 1}

\* check(ip, email?, sender?, receiver?) with every choice of what is provided
NextLimiter ==
    \/ Ticks(LimiterTicks)
    \/ \E ip \in LimiterKeys.ip,
          email \in {None, Some("A@x.co")},
          npub_sender \in {None} \cup {Some(k) : k \in LimiterKeys.npub},
          npub_receiver \in {None} \cup {Some(k) : k \in LimiterKeys.npub} :
          Check(ip, email, npub_sender, npub_receiver)

SpecLimiter == InitLimiter /\ [][NextLimiter]_vars

\* ------------------------------------------------------------- proxy/mod.rs
\* Url::parse of the strings tried: Some(url) or None
Url_parse(str) ==
    LET https(host, path) ==
            Some([scheme |-> "https", username |-> "", password |-> None,
                  host |-> Some(host), path |-> path])
    IN  CASE str = "https://good.example/a" -> https("good.example", "/a")
          [] str = "https://other.example/" -> https("other.example", "/")
          [] str = "http://good.example/a" ->
                Some([Unwrap(https("good.example", "/a")) EXCEPT
                        !.scheme = "http"])
          [] str = "https://user@good.example/a" ->
                Some([Unwrap(https("good.example", "/a")) EXCEPT
                        !.username = "user"])
          [] str = "https://:pw@good.example/a" ->
                Some([Unwrap(https("good.example", "/a")) EXCEPT
                        !.password = Some("pw")])
          [] str = "data:text/plain,a" ->
                Some([scheme |-> "data", username |-> "", password |-> None,
                      host |-> None, path |-> "text/plain,a"])
          [] OTHER -> None

\* Url::join: a Location that is a path keeps the origin, any other is parsed
url_join(url, location) ==
    IF location = "/b" THEN Some([url EXCEPT !.path = "/b"])
    ELSE Url_parse(location)

is_valid_proxy_url(url) ==
    /\ url.scheme = "https"
    /\ url.username = ""
    /\ url.password = None
    /\ url.host # None

\* loopback, private and link-local addresses are blocked, a public one is not
is_blocked_proxy_host_ip(ip) == ip \in {"127.0.0.1", "10.0.0.5", "fe80::1"}

\* a check_url that tests the first resolved address only
check_url_first_ip(url, lookup) ==
    IF ~is_valid_proxy_url(url) THEN Some("invalid URL")
    ELSE IF lookup = None THEN Some("redirect with invalid URL DNS")
    ELSE IF Unwrap(lookup) # <<>> /\ is_blocked_proxy_host_ip(Unwrap(lookup)[1])
    THEN Some("invalid IP")
    ELSE None

\* check_url: None for Ok, Some(error) for Err; lookup is what the resolver
\* answers for the host, None for a failure, else the addresses
check_url(url, lookup) ==
    IF ~is_valid_proxy_url(url) THEN Some("invalid URL")
    ELSE IF url.host = None THEN Some("invalid host")
    ELSE IF lookup = None THEN Some("redirect with invalid URL DNS")
    ELSE IF \E i \in 1..Len(Unwrap(lookup)) :
               is_blocked_proxy_host_ip(Unwrap(lookup)[i])
    THEN Some("invalid IP")
    ELSE None

\* the task answers (status, body): a message, or bytes of the upstream body
ProxyAnswer(px, status, msg, bytes) ==
    [px EXCEPT !.pc = "done",
               !.resp = Some([status |-> status, msg |-> msg, bytes |-> bytes])]

\* validate the npub, parse the URL, ask the rate limiter   (mod.rs 40-76)
ProxyBegin(npub, url, signature, allowed) ==
    /\ proxy.pc = "idle"
    /\ LET px == [proxy EXCEPT !.req = Some([npub |-> npub, url |-> url,
                                  signature |-> signature, allowed |-> allowed])]
       IN  proxy' =
             IF validate_npub(npub) = None
             THEN ProxyAnswer(px, 400, "proxy_invalid_npub", 0)
             ELSE IF Url_parse(url) = None
             THEN ProxyAnswer(px, 400, "proxy_invalid_url", 0)
             ELSE IF ~allowed
             THEN ProxyAnswer(px, 429, "proxy_rate_limit", 0)
             ELSE [px EXCEPT !.pc = "check_url", !.url = Url_parse(url)]
    /\ UNCHANGED <<notification, windowVars, limiterVars, relayVars, blossomVars, mutexVars>>

\* a redirect loop that fetches the Location without validating it
redirect_unchecked(px, lookup) ==
    [px EXCEPT !.pc = "get", !.redirects = @ + 1]

\* url = url.join(loc)?; check_url(&url, ..)?; redirects += 1  (mod.rs 124-128)
redirect_checked(px, lookup) ==
    IF check_url(Unwrap(px.url), lookup) # None
    THEN ProxyAnswer(px, 500, "proxy_invalid_request", 0)
    ELSE [px EXCEPT !.pc = "get", !.redirects = @ + 1,
                    !.passed = Append(@, [url |-> Unwrap(px.url),
                                          ips |-> Unwrap(lookup)])]

\* check_url of the request's URL, then the signature, or check_url of a
\* redirect target inside the loop                 (mod.rs 78-101, 147-171)
ProxyCheckUrl(lookup) ==
    /\ proxy.pc \in {"check_url", "check_redirect"}
    /\ LET url == Unwrap(proxy.url)
           px == [proxy EXCEPT !.lookup = IF is_valid_proxy_url(url)
                                          THEN Some(lookup) ELSE None]
           payload == [npub |-> Unwrap(proxy.req).npub,
                       url |-> Unwrap(proxy.req).url]
       IN  proxy' =
             IF proxy.pc = "check_redirect" THEN redirect_checked(px, lookup)
             ELSE IF check_url(url, lookup) # None
             THEN ProxyAnswer(px, 400, "proxy_invalid_url", 0)
             ELSE LET ok == [px EXCEPT !.passed =
                                Append(@, [url |-> url, ips |-> Unwrap(lookup)])]
                  IN  IF verify_request(payload, Unwrap(proxy.req).signature,
                            Unwrap(validate_npub(payload.npub))) = "true"
                      THEN [ok EXCEPT !.pc = "get"]
                      ELSE ProxyAnswer(ok, 400, "proxy_invalid_signature", 0)
    /\ UNCHANGED <<notification, windowVars, limiterVars, relayVars, blossomVars, mutexVars>>

\* a loop that follows redirects without counting them
redirects_left_always(redirects) == TRUE

\* !(redirects >= PROXY_REQ_MAX_REDIRECTS)
redirects_left(redirects) == ~(redirects >= PROXY_REQ_MAX_REDIRECTS)

\* proxy_client.cl.get(url).send(): a failure, a 3xx with or without
\* Location, or another status with a body that arrives in chunks. The
\* client resolves the host itself (AppState::new builds it without the
\* resolver of check_url) and has connected to ip when it got a response.
\*                                                        (mod.rs 109-131)
ProxyGet(r, ip) ==
    /\ proxy.pc = "get"
    /\ LET px == [proxy EXCEPT !.gets = Append(@, Unwrap(proxy.url)),
                               !.connects = IF r.kind = "error" THEN @
                                            ELSE Append(@, ip),
                               !.upstream = Some(r)]
           failed == ProxyAnswer(px, 500, "proxy_invalid_request", 0)
       IN  proxy' =
             IF r.kind = "error" THEN failed
             ELSE IF r.kind = "redirect"
             THEN IF ~redirects_left(proxy.redirects) THEN failed
                  ELSE IF r.location = None THEN failed
                  ELSE IF url_join(Unwrap(proxy.url), Unwrap(r.location)) = None
                  THEN failed
                  ELSE [px EXCEPT !.pc = "check_redirect",
                                  !.url = url_join(Unwrap(proxy.url),
                                                   Unwrap(r.location))]
             ELSE [px EXCEPT !.pc = "body", !.pending = r.chunks, !.body = 0]
    /\ UNCHANGED <<notification, windowVars, limiterVars, relayVars, blossomVars, mutexVars>>

\* a cap that is compared with the chunk alone
chunk_fits_alone(body, chunk) == ~(chunk > PROXY_MAX_BODY_SIZE)

\* !(body.len() + chunk.len() > PROXY_MAX_BODY_SIZE)
chunk_fits(body, chunk) == ~(body + chunk > PROXY_MAX_BODY_SIZE)

\* resp.chunk(): the next chunk (its length; below 0 for a transport error)
\* or the end of the body                                 (mod.rs 133-143)
ProxyChunk ==
    /\ proxy.pc = "body"
    /\ proxy' =
          IF proxy.pending = <<>>
          THEN ProxyAnswer(proxy, Unwrap(proxy.upstream).status, "", proxy.body)
          ELSE IF Head(proxy.pending) < 0
                  \/ ~chunk_fits(proxy.body, Head(proxy.pending))
          THEN ProxyAnswer(proxy, 500, "proxy_invalid_request", 0)
          ELSE [proxy EXCEPT !.body = @ + Head(proxy.pending),
                             !.pending = Tail(@)]
    /\ UNCHANGED <<notification, windowVars, limiterVars, relayVars, blossomVars, mutexVars>>

\* the response has gone out and the task ends
ProxyReturn ==
    /\ proxy.pc = "done"
    /\ proxy' = NewProxyTask
    /\ UNCHANGED <<notification, windowVars, limiterVars, relayVars, blossomVars, mutexVars>>

\* requests: a valid one, and each one defect
ProxyRequests ==
    LET signed(n, u) == [npub |-> n, url |-> u, allowed |-> TRUE,
                         signature |-> Sign(XOnly(n), <<n, u>>)]
        wf == {signed(n, "https://good.example/a") : n \in Npubs}
    IN  wf
        \cup {signed(BadNpub, "https://good.example/a")}
        \cup {signed("npub1a", u) :
                u \in {"not a url", "http://good.example/a",
                       "https://user@good.example/a",
                       "https://:pw@good.example/a", "data:text/plain,a"}}
        \cup {[r EXCEPT !.allowed = FALSE] : r \in wf}
        \cup {[r EXCEPT !.signature = Sign("keyB", <<"npub1a", r.url>>)] : r \in wf}
        \cup {[r EXCEPT !.signature =
                 Sign(XOnly(r.npub), <<r.npub, "https://other.example/">>)] :
                r \in wf}
        \cup {[r EXCEPT !.signature = Malformed(<<>>)] : r \in wf}

\* what the resolver answers: a failure, no address, public addresses, or
\* answers with a blocked address first or last
Lookups ==
    {None, Some(<<>>), Some(<<"93.184.216.34">>),
     Some(<<"93.184.216.34", "127.0.0.1">>), Some(<<"10.0.0.5">>),
     Some(<<"fe80::1", "93.184.216.34">>)}

\* what the upstream answers; bodies come in chunks of 1 MiB, of one byte,
\* of the cap and of one byte more
ProxyResponses ==
    LET MiB == PROXY_MAX_BODY_SIZE \div 2
    IN
    {[kind |-> "error", status |-> 0, location |-> None, chunks |-> <<>>]}
    \cup {[kind |-> "redirect", status |-> 301, location |-> l, chunks |-> <<>>] :
            l \in {None, Some("/b"), Some("https://other.example/"),
                   Some("http://good.example/a"), Some("https://[")}}
    \cup {[kind |-> "ok", status |-> st, location |-> None, chunks |-> c] :
            st \in {200, 404},
            c \in {<<>>, <<MiB>>, <<MiB, MiB>>, <<MiB, MiB, 1>>,
                   <<2 * MiB + 1>>, <<1, 2 * MiB>>, <<MiB, -1>>}}

\* what the client's own lookup of the host leads it to connect to: the
\* public address, or a private one when the answer has changed
ClientAddresses == {"93.184.216.34", "10.0.0.5"}

NextProxy ==
    \/ ProxyReturn
    \/ \E r \in ProxyRequests : ProxyBegin(r.npub, r.url, r.signature, r.allowed)
    \/ \E lookup \in Lookups : ProxyCheckUrl(lookup)
    \/ \E r \in ProxyResponses, ip \in ClientAddresses : ProxyGet(r, ip)
    \/ ProxyChunk

SpecProxy == Init /\ [][NextProxy]_vars

\* the runtime polls a task that can proceed, and each await of the task ends
\* (the client's timeout bounds every send and every chunk)
SpecProxyLive == SpecProxy /\ WF_vars(NextProxy)

\* ---------------------------------------------------------------- relay.rs
\* a filter that does not look at the chain prefix
bcr_chain_key_of_any_prefix(event, chains) ==
    LET matching == {i \in 1..Len(event) :
                        /\ event[i].kind = "i"
                        /\ event[i].chain_id # None
                        /\ Unwrap(event[i].chain_id) \in chains}
        first == CHOOSE i \in matching : \A j \in matching : i <= j
    IN  IF matching = {} THEN None
        ELSE Some(Unwrap(event[first].chain_id) \o ":" \o event[first].address)

\* the first "i" tag that names a bitcredit address of one of the chains
\* gives chain_id:address; None when the event has no such tag
bcr_chain_key(event, chains) ==
    LET matching == {i \in 1..Len(event) :
                        /\ event[i].kind = "i"
                        /\ event[i].chain_id # None
                        /\ event[i].chain = "bitcredit"
                        /\ Unwrap(event[i].chain_id) \in chains}
        first == CHOOSE i \in matching : \A j \in matching : i <= j
    IN  IF matching = {} THEN None
        ELSE Some(Unwrap(event[first].chain_id) \o ":" \o event[first].address)

\* a key that leaves the peer out
rate_limit_key_of_chain(addr, chain_key) == chain_key

\* format!("{}:{chain_key}", addr): a SocketAddr displays as ip:port
rate_limit_key(addr, chain_key) ==
    addr.ip \o ":" \o addr.port \o ":" \o chain_key

\* SlidingWindow::should_prune, the predicate prune retains by: the entry has
\* been used within MAX_IDLE, as for the maps of RateLimiter
should_prune(w, t) == t - w.last_seen <= MAX_IDLE

\* a prune that does not wait for the interval
prune_on_every_call(l, t) ==
    [l EXCEPT !.last_prune = t,
              !.keys = [k \in DOMAIN l.keys |->
                          IF IsSome(l.keys[k])
                             /\ should_prune(Unwrap(l.keys[k]), t)
                          THEN l.keys[k] ELSE None]]

\* NostrRateLimiter::prune
prune(l, t) ==
    IF t - l.last_prune < PRUNE_INTERVAL THEN l
    ELSE [l EXCEPT !.last_prune = t,
                   !.keys = [k \in DOMAIN l.keys |->
                               IF IsSome(l.keys[k])
                                  /\ should_prune(Unwrap(l.keys[k]), t)
                               THEN l.keys[k] ELSE None]]

\* NostrRateLimiter::check, which allowed delegates to: the limiter after the
\* call and the value returned
allowed(l, key, t) ==
    LET pruned == prune(l, t)
        r == entry_allow(pruned.keys, key, l.limit, l.window, t)
    IN  [limiter |-> [pruned EXCEPT !.keys[key] = Some(r.window)],
         allowed |-> r.allowed]

\* BlockRateLimiter::admit_event at Utc::now(); a Reject carries the pieces
\* of its reason
admit_event(event, addr) ==
    /\ IsSome(blockRateLimiter)
    /\ Unwrap(admits).n < MaxAdmits
    /\ LET b == Unwrap(blockRateLimiter)
           chain_key == bcr_chain_key(event, b.chains)
           r == allowed(b.limiter, rate_limit_key(addr, Unwrap(chain_key)), now)
           reject == IsSome(chain_key) /\ ~r.allowed
           result == IF reject
                     THEN <<"Reject", "Rate limit exceeded",
                            " for BCR chain event ", Unwrap(chain_key)>>
                     ELSE <<"Accept">>
           h == Unwrap(admits)
       IN  /\ blockRateLimiter' =
                IF IsSome(chain_key) THEN Some([b EXCEPT !.limiter = r.limiter])
                ELSE blockRateLimiter
           /\ admits' = Some(
                [accepted |-> IF reject THEN h.accepted
                              ELSE [h.accepted EXCEPT ![<<addr, event>>] =
                                       Append(@, now)],
                 last |-> Some([addr |-> addr, event |-> event, t |-> now,
                                result |-> result]),
                 n |-> h.n + 1])
    /\ UNCHANGED <<notification, windowVars, limiterVars, proxy, blossomVars, mutexVars>>

\* the peers: the two sockets of test_block_rate_limiter_different_ip_addresses
\* and a second connection of the first address
Peers ==
    {[ip |-> "127.0.0.1", port |-> "8080"], [ip |-> "127.0.0.2", port |-> "8080"],
     [ip |-> "127.0.0.1", port |-> "50123"]}

\* the events: two chain addresses of a configured chain, an event whose
\* tags all fail one test of the filter (another chain prefix, no chain_id,
\* a chain that is not configured), and one that names the first address
\* after such tags
Events ==
    LET tag(chain, chain_id, address) ==
            [kind |-> "i", chain |-> chain, chain_id |-> chain_id,
             address |-> address]
        others == <<[kind |-> "p", chain |-> "", chain_id |-> None,
                     address |-> ""],
                    tag("bitcoin", Some("bill"), "addr123"),
                    tag("bitcredit", None, "addr123"),
                    tag("bitcredit", Some("other"), "addr123")>>
    IN  {<<tag("bitcredit", Some("bill"), "addr123")>>,
         <<tag("bitcredit", Some("bill"), "addr456")>>,
         others,
         others \o <<tag("bitcredit", Some("bill"), "addr123")>>}

\* block_rate_limiter(config), with the limit and the window of the tests or
\* the defaults of RelayConfig, at time 0 after the events admitted so far:
\* the key of the first peer and the first event absent, one hit below the
\* limit or at the limit, the other keys all absent or all at the limit
InitRelay ==
    /\ NotificationIdle
    /\ NoWindow
    /\ NoLimiter
    /\ proxy = NewProxyTask
    /\ NoBlossom
    /\ NoTasks
    /\ \E config \in {[chain_rate_limit |-> 2, chain_rate_limit_window |-> 10],
                      [chain_rate_limit |-> 6, chain_rate_limit_window |-> 60]},
          first \in 0..2, rest \in {0, 2} :
          LET chains == {"bill", "identity", "company"}
              limit == config.chain_rate_limit
              window == config.chain_rate_limit_window
              event == <<[kind |-> "i", chain |-> "bitcredit",
                          chain_id |-> Some("bill"), address |-> "addr123"]>>
              peer == [ip |-> "127.0.0.1", port |-> "8080"]
              hits(a, e) ==
                  IF Len(e) # 1 \/ bcr_chain_key(e, chains) = None THEN 0
                  ELSE LET fill == IF a = peer /\ e = event THEN first ELSE rest
                       IN  IF fill = 0 THEN 0 ELSE limit + fill - 2
              keyed == {<<a, e>> \in Peers \X Events : Len(e) = 1}
          IN  /\ blockRateLimiter =
                   Some([limiter |->
                           [keys |-> [k \in {rate_limit_key(x[1],
                                          Unwrap(bcr_chain_key(x[2], chains))) :
                                          x \in keyed} |->
                                        LET x == CHOOSE x \in keyed :
                                              k = rate_limit_key(x[1],
                                                Unwrap(bcr_chain_key(x[2], chains)))
                                        IN  IF hits(x[1], x[2]) = 0 THEN None
                                            ELSE Some(Filled(hits(x[1], x[2]),
                                                             limit, window))],
                            window |-> window,
                            last_prune |-> 0,
                            limit |-> limit],
                         chains |-> chains])
              /\ admits = Some([accepted |->
                                  [x \in Peers \X Events |->
                                     [i \in 1..hits(x[1], x[2]) |-> 0]],
                                last |-> None, n |-> 0])

\* the clock passing a window, the prune interval and the idle time
RelayTicks == {10, 11, 61, PRUNE_INTERVAL, MAX_IDLE + 1}

NextRelay ==
    \/ Ticks(RelayTicks)
    \/ \E event \in Events, addr \in Peers : admit_event(event, addr)

SpecRelay == InitRelay /\ [][NextRelay]_vars

\* -------------------------------------------------------------- blossom
\* an insert that empties the table first
insert_replacing(hash, bytes, size) ==
    files' = [h \in DOMAIN files |->
                IF h = hash THEN Some([bytes |-> bytes, size |-> size]) ELSE None]

\* INSERT INTO files (hash, data, size) .. ON CONFLICT DO NOTHING
insert(hash, bytes, size) ==
    files' = [files EXCEPT ![hash] =
                IF IsSome(@) THEN @ ELSE Some([bytes |-> bytes, size |-> size])]

\* SELECT hash, data, size FROM files WHERE hash = $1
get(hash) == files[hash]

\* PUT /upload: size checks, key prefix, hash, insert; ok is whether the
\* database statement succeeds
handle_upload(body, ok) ==
    LET size == body.len
        hash == sha256(body)
        answer(status, msg) ==
            lastBlob' = Some([h |-> "upload", body |-> body, status |-> status,
                              msg |-> msg])
    IN  /\ IF size > MAX_FILE_SIZE_BYTES
           THEN answer(413, "File too big") /\ UNCHANGED files
           ELSE IF size = 0
           THEN answer(400, "Empty body") /\ UNCHANGED files
           ELSE IF size < ENCRYPTION_PUB_KEY_BYTE_LEN \/ ~body.key
           THEN answer(400, "Invalid body") /\ UNCHANGED files
           ELSE IF ~ok
           THEN answer(500, "INTERNAL_SERVER_ERROR") /\ UNCHANGED files
           ELSE /\ insert(hash, body.bytes, size)
                /\ answer(200, [sha256 |-> hash, size |-> size])
        /\ UNCHANGED <<notification, windowVars, limiterVars, proxy, relayVars, mutexVars>>

\* GET /<sha256>
handle_get_file(hash, ok) ==
    /\ lastBlob' =
          Some([h |-> "get", body |-> hash,
                status |-> IF ~ok THEN 500 ELSE IF get(hash) = None THEN 404
                           ELSE 200,
                msg |-> IF ~ok THEN "INTERNAL_SERVER_ERROR"
                        ELSE IF get(hash) = None THEN "NOT_FOUND"
                        ELSE Unwrap(get(hash)).bytes])
    /\ UNCHANGED files
    /\ UNCHANGED <<notification, windowVars, limiterVars, proxy, relayVars, mutexVars>>

NextBlossom ==
    \/ \E body \in Bodies, ok \in BOOLEAN : handle_upload(body, ok)
    \/ \E hash \in DOMAIN files, ok \in BOOLEAN : handle_get_file(hash, ok)

SpecBlossom == Init /\ [][NextBlossom]_vars

\* ------------------------------------------- the rate limiter's mutex
\* The route handlers around state.rate_limiter.lock(): what check is given,
\* the operations on the database, DNS, the mail service and the upstream
\* server that follow it, in the order of the code, and after how many of
\* them the signature is verified (register has loaded the challenge, proxy
\* req has resolved the host; start verifies none).
Handlers ==
    [start |-> [email |-> None, npub_sender |-> None,
                npub_receiver |-> Some("npub1a"),
                operations |-> <<"db">>, verifies |-> None],
     register |-> [email |-> Some("a@x.co"), npub_sender |-> None,
                   npub_receiver |-> Some("npub1a"),
                   operations |-> <<"db", "db", "email", "db">>,
                   verifies |-> Some(1)],
     send |-> [email |-> None, npub_sender |-> Some("npub1a"),
               npub_receiver |-> Some("npub1a"),
               operations |-> <<"db", "email">>, verifies |-> Some(0)],
     req |-> [email |-> None, npub_sender |-> Some("npub1a"),
              npub_receiver |-> None,
              operations |-> <<"dns", "http">>, verifies |-> Some(1)]]

\* a request reaches handler h; valid is whether its npub, email and url
\* pass validation, which comes before the lock
Arrive(p, h, valid) ==
    /\ tasks[p].pc = "idle"
    /\ IsSome(limiter)
    /\ (IF IsSome(lastCheck) THEN Unwrap(lastCheck).n ELSE 0)
          + Cardinality({q \in Procs : tasks[q].pc \in {"lock", "check"}})
          < MaxChecks
    /\ tasks' = [tasks EXCEPT ![p] =
                    [NewTask EXCEPT !.pc = IF valid THEN "lock" ELSE "done",
                                    !.handler = h,
                                    !.left = Handlers[h].operations]]
    /\ UNCHANGED <<notification, windowVars, limiterVars, proxy, relayVars,
                   blossomVars, mutex>>

\* state.rate_limiter.lock().await returns once the mutex is free
Acquire(p) ==
    /\ tasks[p].pc = "lock"
    /\ mutex = None
    /\ mutex' = Some(p)
    /\ tasks' = [tasks EXCEPT ![p].pc = "check"]
    /\ UNCHANGED <<notification, windowVars, limiterVars, proxy, relayVars,
                   blossomVars>>

\* a check that is only asked and records nothing
EvaluateWithoutHit(p) ==
    /\ tasks[p].pc = "check"
    /\ LET h == Handlers[tasks[p].handler]
           ip == "203.0.113.7"
           r == check(Unwrap(limiter), now, ip, h.email, h.npub_sender,
                      h.npub_receiver)
       IN  /\ limiter' = limiter
           /\ unpruned' = unpruned
           /\ lastCheck' = Some([ip |-> ip, email |-> h.email,
                                 npub_sender |-> h.npub_sender,
                                 npub_receiver |-> h.npub_receiver,
                                 allowed |-> r.allowed,
                                 n |-> IF IsSome(lastCheck)
                                       THEN Unwrap(lastCheck).n + 1 ELSE 1])
           /\ tasks' = [tasks EXCEPT ![p].pc = "drop",
                                     ![p].allowed = Some(r.allowed)]
    /\ UNCHANGED <<notification, windowVars, proxy, relayVars, blossomVars,
                   mutex>>

\* rate_limiter.check(ip, ..) through the guard
Evaluate(p) ==
    /\ tasks[p].pc = "check"
    /\ LET h == Handlers[tasks[p].handler]
           ip == "203.0.113.7"
           r == check(Unwrap(limiter), now, ip, h.email, h.npub_sender,
                      h.npub_receiver)
       IN  /\ limiter' = Some(r.limiter)
           /\ unpruned' = Some(check_never_pruning(Unwrap(unpruned), now, ip,
                                  h.email, h.npub_sender,
                                  h.npub_receiver).limiter)
           /\ lastCheck' = Some([ip |-> ip, email |-> h.email,
                                 npub_sender |-> h.npub_sender,
                                 npub_receiver |-> h.npub_receiver,
                                 allowed |-> r.allowed,
                                 n |-> IF IsSome(lastCheck)
                                       THEN Unwrap(lastCheck).n + 1 ELSE 1])
           /\ tasks' = [tasks EXCEPT ![p].pc = "drop",
                                     ![p].allowed = Some(r.allowed)]
    /\ UNCHANGED <<notification, windowVars, proxy, relayVars, blossomVars,
                   mutex>>

\* a guard that lives until the handler returns
ReleaseAtReturn(p) ==
    /\ tasks[p].pc = "drop"
    /\ mutex' = IF tasks[p].allowed = Some(TRUE) THEN mutex ELSE None
    /\ tasks' = [tasks EXCEPT ![p].pc =
                    IF tasks[p].allowed = Some(TRUE) THEN "io" ELSE "done"]
    /\ UNCHANGED <<notification, windowVars, limiterVars, proxy, relayVars,
                   blossomVars>>

\* drop(rate_limiter), and 429 for a request that is not allowed
Release(p) ==
    /\ tasks[p].pc = "drop"
    /\ mutex' = None
    /\ tasks' = [tasks EXCEPT ![p].pc =
                    IF tasks[p].allowed = Some(TRUE) THEN "io" ELSE "done"]
    /\ UNCHANGED <<notification, windowVars, limiterVars, proxy, relayVars,
                   blossomVars>>

\* the handler's next await on the database, DNS, the mail service or the
\* upstream server; it returns early when the operation fails or decides
\* the response
Operate(p, ok) ==
    /\ tasks[p].pc = "io"
    /\ tasks' = [tasks EXCEPT ![p].io = Append(@, Head(tasks[p].left)),
                              ![p].left = Tail(@),
                              ![p].pc = IF ok /\ Tail(tasks[p].left) # <<>>
                                        THEN "io" ELSE "done"]
    /\ UNCHANGED <<notification, windowVars, limiterVars, proxy, relayVars,
                   blossomVars, mutex>>

\* the signature does not verify, or register finds no challenge or another
\* one than was signed: 400
Unverified(p) ==
    /\ tasks[p].pc = "io"
    /\ Handlers[tasks[p].handler].verifies = Some(Len(tasks[p].io))
    /\ tasks' = [tasks EXCEPT ![p].pc = "done", ![p].unverified = TRUE]
    /\ UNCHANGED <<notification, windowVars, limiterVars, proxy, relayVars,
                   blossomVars, mutex>>

\* the handler returns its response
Leave(p) ==
    /\ tasks[p].pc = "done"
    /\ tasks' = [tasks EXCEPT ![p] = NewTask]
    /\ mutex' = IF mutex = Some(p) THEN None ELSE mutex
    /\ UNCHANGED <<notification, windowVars, limiterVars, proxy, relayVars,
                   blossomVars>>

\* the limiter at time 0 with the address's window empty or full and the
\* receiver's window empty or one hit below its limit
InitMutex ==
    /\ NotificationIdle
    /\ NoWindow
    /\ proxy = NewProxyTask
    /\ NoRelay
    /\ NoBlossom
    /\ NoTasks
    /\ \E i \in {None, Some(Filled(IP_LIMIT, IP_LIMIT, IP_WINDOW))},
          r \in {None, Some(Filled(NPUB_LIMIT - 1, NPUB_LIMIT, NPUB_WINDOW))} :
          limiter = Some([last_prune |-> 0,
                          by_ip |-> [k \in LimiterKeys.ip |-> i],
                          by_email |-> [k \in LimiterKeys.email |-> None],
                          by_npub_sender |-> [k \in LimiterKeys.npub |-> None],
                          by_npub_receiver |-> [k \in LimiterKeys.npub |-> r]])
    /\ lastCheck = None
    /\ unpruned = limiter

NextMutex ==
    \/ \E p \in Procs, h \in DOMAIN Handlers, valid \in BOOLEAN :
          Arrive(p, h, valid)
    \/ \E p \in Procs : Acquire(p)
    \/ \E p \in Procs : Evaluate(p)
    \/ \E p \in Procs : Release(p)
    \/ \E p \in Procs, ok \in BOOLEAN : Operate(p, ok)
    \/ \E p \in Procs : Unverified(p)
    \/ \E p \in Procs : Leave(p)

SpecMutex == InitMutex /\ [][NextMutex]_vars

\* ================================================================ claims
\* task p has answered its request to handler h with this status
Answered(p, h, status) ==
    /\ pc[p] = "done"
    /\ R(p).h = h
    /\ Unwrap(resp[p]).status = status

\* task p takes a step of its handler
Steps(p) == pc'[p] # pc[p]

\* C1: in every reachable state a preferences row with email_confirmed = true
\* implies that a confirm_email succeeded earlier for that npub and that the
\* row's email is the email of the confirmation row whose token that
\* confirm_email presented.
C1_ConfirmedEmailWasConfirmed ==
    \A n \in Npubs :
        (IsSome(preferences[n]) /\ Unwrap(preferences[n]).email_confirmed)
        => /\ IsSome(lastConfirm[n])
           /\ Unwrap(preferences[n]).email = Unwrap(lastConfirm[n]).email

\* C2: register passes its challenge check only if a challenge row for the
\* npub exists, now - created_at <= 120 s and the signature is a signature by
\* the npub's key over the challenge stored in that row; the confirmation
\* email, the two rows and the preferences token come only after that check.
C2_RegisterOnlyAfterChallengeCheck ==
    [][\A p \in Procs :
        /\ (Steps(p) /\ pc'[p] = "reg_remove") =>
              LET n == Unwrap(req'[p]).npub
                  sig == Unwrap(req'[p]).signed_challenge
              IN  /\ pc[p] = "idle"
                  /\ n \in Npubs
                  /\ IsSome(challenges[n])
                  /\ now - Unwrap(challenges[n]).created_at <= 120
                  /\ sig.wellformed
                  /\ sig.key = XOnly(n)
                  /\ sig.msg = Unwrap(challenges[n]).challenge
        /\ (Steps(p) /\ pc'[p] = "reg_email") => pc[p] = "reg_remove"
        /\ (Steps(p) /\ pc'[p] = "reg_persist") => pc[p] = "reg_email"
        /\ (Steps(p) /\ pc'[p] = "done" /\ Unwrap(req'[p]).h = "register"
              /\ Unwrap(resp'[p]).status = 200) => pc[p] = "reg_persist"
        /\ (Steps(p) /\ IsSome(req'[p]) /\ Unwrap(req'[p]).h = "register"
              /\ pc[p] # "reg_persist") => UNCHANGED <<verification, preferences>>
      ]_vars

\* a register succeeded on a challenge exactly 120 s old
C2_Witness ==
    \E p \in Procs :
        /\ Answered(p, "register", 200)
        /\ L(p).now - L(p).challenge.created_at = 120

\* C3: a register that passes verifies the challenge start wrote last for the
\* npub, and the challenge row it then deletes is the one it verified.
C3_RegisterConsumesWhatItVerified ==
    [][\A p \in Procs :
        /\ (pc[p] = "idle" /\ pc'[p] = "reg_remove") =>
              lastStart[Unwrap(req'[p]).npub]
                  = Some(Unwrap(loc'[p]).challenge.challenge)
        /\ (pc[p] = "reg_remove" /\ pc'[p] = "reg_email") =>
              LET n == L(p).challenge.npub
              IN  (challenges'[n] # challenges[n]) =>
                      Unwrap(challenges[n]).challenge = L(p).challenge.challenge
      ]_vars

\* the confirmation row a token names is present, not older than 24 h and
\* not confirmed
C4_Pending(token) ==
    \E n \in Npubs :
        /\ IsSome(verification[n])
        /\ Unwrap(verification[n]).token = token
        /\ now - Unwrap(verification[n]).sent_at <= 24 * 60 * 60
        /\ ~Unwrap(verification[n]).confirmed

\* a preferences row exists for the confirmation's npub with the same email
C4_Matches(email_confirmation) ==
    /\ IsSome(preferences[email_confirmation.npub])
    /\ Unwrap(preferences[email_confirmation.npub]).email
           = email_confirmation.email

\* the confirmation row of n is deleted and its preferences row confirmed
\* and enabled, nothing else changes
C4_Confirmed(n) ==
    /\ verification' = [verification EXCEPT ![n] = None]
    /\ preferences' = [preferences EXCEPT ![n] =
          Some([Unwrap(preferences[n]) EXCEPT !.email_confirmed = TRUE,
                                            !.enabled = TRUE])]
    /\ UNCHANGED challenges

C4_Denied(p) ==
    /\ pc'[p] = "done"
    /\ Unwrap(resp'[p]).status = 400
    /\ UNCHANGED store

C5_ReplayAnswersAlreadyConfirmed ==
    [][\A p \in Procs :
        (/\ pc[p] = "idle" /\ Steps(p)
         /\ Unwrap(req'[p]).h = "confirm_email"
         /\ \E n \in Npubs :
               /\ IsSome(lastConfirm[n])
               /\ Unwrap(lastConfirm[n]).token = Unwrap(req'[p]).token)
        => /\ Unwrap(resp'[p]) =
                 [status |-> 400, msg |-> "email already confirmed"]
           /\ UNCHANGED <<verification, preferences>>
      ]_vars

\* C6 as stated: each send that dispatches a notification email to receiver R
\* is preceded by a successful confirm_email for R that came after R's most
\* recent successful register.
C6_DispatchFollowsConfirm ==
    [][\A p \in Procs :
        (/\ pc[p] = "send_email" /\ pc'[p] = "done"
         /\ Unwrap(resp'[p]).status = 200)
        => IsSome(lastConfirm[R(p).payload.receiver])
      ]_vars

\* C6 amended: a send goes on to dispatch only if, when it reads the
\* receiver's preferences row, a confirm_email for R has succeeded since R's
\* most recent successful register; the email is dispatched only after that
\* read.
C6_DispatchFollowsConfirmAtRead ==
    [][\A p \in Procs :
        /\ (Steps(p) /\ pc'[p] = "send_email") =>
              /\ pc[p] = "idle"
              /\ Unwrap(req'[p]).payload.receiver \in Npubs
              /\ IsSome(lastConfirm[Unwrap(req'[p]).payload.receiver])
        /\ (Steps(p) /\ pc[p] = "idle" /\ Unwrap(req'[p]).h = "send"
              /\ pc'[p] = "done") => loc'[p] = None
      ]_vars

\* a send dispatched its email to a receiver whose confirmation still stands
C6_Witness ==
    \E p \in Procs :
        /\ Answered(p, "send", 200)
        /\ IsSome(loc[p])
        /\ IsSome(lastConfirm[R(p).payload.receiver])
        /\ Unwrap(lastConfirm[R(p).payload.receiver]).email
              = L(p).email_preferences.email

\* the request passes the limiter, names a known kind, has an id that starts
\* with "bitcr" and is signed by the sender over the payload
C7_Wellformed(r) ==
    /\ r.allowed
    /\ \E i \in 1..NumFlags : FlagNames[i] = r.payload.kind
    /\ Len(r.payload.id) >= 5
    /\ SubSeq(r.payload.id, 1, 5) = <<"b", "i", "t", "c", "r">>
    /\ r.payload.sender \in Npubs
    /\ r.payload.receiver \in Npubs
    /\ r.signature.wellformed
    /\ r.signature.key = XOnly(r.payload.sender)
    /\ r.signature.msg = borsh_to_vec(r.payload)

\* the receiver's preferences row exists, is enabled and has the kind's flag
C7_Subscribed(r) ==
    /\ IsSome(preferences[r.payload.receiver])
    /\ Unwrap(preferences[r.payload.receiver]).enabled
    /\ \E i \in 1..NumFlags :
          /\ FlagNames[i] = r.payload.kind
          /\ BitAt(Unwrap(preferences[r.payload.receiver]).flags, i - 1) = 1

C7_Sending(p) == pc[p] = "idle" /\ Steps(p) /\ Unwrap(req'[p]).h = "send"

\* C7 as stated: send dispatches iff the request is well-formed and the
\* receiver subscribed; a well-formed request for a receiver that did not is
\* answered 200 OK without an email; send changes no state.
C7_SendIff ==
    [][\A p \in Procs :
        /\ C7_Sending(p) =>
              LET r == Unwrap(req'[p])
              IN  /\ pc'[p] = "send_email"
                        <=> (C7_Wellformed(r) /\ C7_Subscribed(r))
                  /\ (C7_Wellformed(r) /\ ~C7_Subscribed(r)) =>
                        /\ pc'[p] = "done"
                        /\ Unwrap(resp'[p]) = [status |-> 200, msg |-> "OK"]
        /\ (Steps(p) /\ IsSome(req'[p]) /\ Unwrap(req'[p]).h = "send") =>
              UNCHANGED store
      ]_vars

\* C7 amended: send goes on to dispatch iff the request is well-formed, the
\* preferences lookup answers and the receiver subscribed; when the lookup
\* fails the answer is 500 "Error sending email"; the dispatch itself ends
\* in 200 OK or, when the mail cannot be built or sent, in 500.
C7_SendIffStoreAnswers ==
    [][\A p \in Procs :
        /\ C7_Sending(p) =>
              LET r == Unwrap(req'[p])
                  failed == /\ pc'[p] = "done"
                            /\ Unwrap(resp'[p]) =
                                  [status |-> 500, msg |-> "Error sending email"]
              IN  /\ pc'[p] = "send_email" =>
                        (C7_Wellformed(r) /\ C7_Subscribed(r))
                  /\ (C7_Wellformed(r) /\ C7_Subscribed(r)) =>
                        (pc'[p] = "send_email" \/ failed)
                  /\ (C7_Wellformed(r) /\ ~C7_Subscribed(r)) =>
                        \/ /\ pc'[p] = "done"
                           /\ Unwrap(resp'[p]) = [status |-> 200, msg |-> "OK"]
                        \/ failed
                  /\ failed => C7_Wellformed(r)
        /\ (pc[p] = "send_email" /\ Steps(p)) =>
              Unwrap(resp'[p]) \in
                  {[status |-> 200, msg |-> "OK"],
                   [status |-> 500, msg |-> "send mail confirmation error"],
                   [status |-> 500, msg |-> "Error sending mail"]}
        /\ (Steps(p) /\ IsSome(req'[p]) /\ Unwrap(req'[p]).h = "send") =>
              UNCHANGED store
      ]_vars

\* a send dispatched its email
C7_Witness ==
    \E p \in Procs :
        /\ Answered(p, "send", 200)
        /\ IsSome(loc[p])
        /\ L(p).email_preferences.npub = R(p).payload.receiver

\* the default flag set
C8_DefaultFlagNames ==
    {"BillSigned", "BillAccepted", "BillAcceptanceRequested",
     "BillAcceptanceTimeout", "BillAcceptanceRejected",
     "BillAcceptanceRecourse", "BillPaid", "BillPaymentRequested",
     "BillPaymentTimeout", "BillPaymentRejected", "BillPaymentRecourse",
     "BillRecoursePaid", "BillRecourseRejected", "BillRecourseTimeout",
     "BillMintingRequested"}

C8_IsDefault(flags) ==
    /\ flags \in 0..(2 ^ 21 - 1)
    /\ \A i \in 1..21 :
          BitAt(flags, i - 1) = 1 <=> FlagNames[i] \in C8_DefaultFlagNames

C8_RowTokens ==
    {Unwrap(verification[n]).token : n \in {m \in Npubs : IsSome(verification[m])}}
    \cup {Unwrap(preferences[n]).token : n \in {m \in Npubs : IsSome(preferences[m])}}

\* C8: the step in which a register succeeds leaves, whatever the rows of the
\* npub were, a confirmation row with confirmed = false, a new token and
\* sent_at = now, and a preferences row with enabled = false,
\* email_confirmed = false, a new token, the submitted email and ebill_url
\* and the default flags; both are written in that one step, and a persist
\* that fails writes neither.
C8_RegisterResetsRows ==
    [][\A p \in Procs :
        (pc[p] = "reg_persist" /\ Steps(p)) =>
            LET n == R(p).npub
                v == Unwrap(verification'[n])
                e == Unwrap(preferences'[n])
            IN  IF Unwrap(resp'[p]).status = 200
                THEN /\ IsSome(verification'[n]) /\ IsSome(preferences'[n])
                     /\ v.email = R(p).email
                     /\ ~v.confirmed
                     /\ v.sent_at = now
                     /\ v.token \notin C8_RowTokens
                     /\ ~e.enabled
                     /\ ~e.email_confirmed
                     /\ e.email = R(p).email
                     /\ e.ebill_url = R(p).ebill_url
                     /\ e.token \notin C8_RowTokens
                     /\ e.token # v.token
                     /\ C8_IsDefault(e.flags)
                     /\ \A m \in Npubs \ {n} :
                           /\ verification'[m] = verification[m]
                           /\ preferences'[m] = preferences[m]
                ELSE UNCHANGED <<verification, preferences>>
      ]_vars

\* a register succeeded for an npub that had registered before, later
C8_Witness ==
    \E p \in Procs :
        /\ Answered(p, "register", 200)
        /\ L(p).email_confirmation_token = 3
        /\ \A m \in Npubs \ {R(p).npub} : preferences[m] = None
        /\ now > 0
        /\ Unwrap(verification[R(p).npub]).sent_at = now
        /\ ~Unwrap(preferences[R(p).npub]).enabled

\* a preferences row with this token exists and its email is confirmed
C9_Usable(token) ==
    \E n \in Npubs :
        /\ IsSome(preferences[n])
        /\ Unwrap(preferences[n]).token = token
        /\ Unwrap(preferences[n]).email_confirmed

\* C9: preferences answers with the form, and update_preferences goes on to
\* write, only if a preferences row with exactly the request's token exists
\* and is email_confirmed, otherwise the answer is 400 and nothing changes;
\* the write changes only rows with that token that are email_confirmed.
C9_TokenAndConfirmedEmail ==
    [][\A p \in Procs :
        /\ (pc[p] = "idle" /\ Steps(p)
              /\ Unwrap(req'[p]).h \in {"preferences", "update_preferences"}) =>
              /\ UNCHANGED store
              /\ \/ C9_Usable(Unwrap(req'[p]).token)
                 \/ pc'[p] = "done" /\ Unwrap(resp'[p]).status = 400
        /\ (pc[p] = "upd_write" /\ Steps(p)) =>
              /\ UNCHANGED <<challenges, verification>>
              /\ \A n \in Npubs :
                    preferences'[n] # preferences[n] =>
                        /\ IsSome(preferences[n])
                        /\ Unwrap(preferences[n]).token = R(p).token
                        /\ Unwrap(preferences[n]).email_confirmed
      ]_vars

\* an update_preferences wrote the row of its token while another npub's row
\* exists
C9_Witness ==
    \E p \in Procs :
        /\ Answered(p, "update_preferences", 303)
        /\ \E n, m \in Npubs :
              /\ n # m
              /\ IsSome(preferences[n]) /\ IsSome(preferences[m])
              /\ Unwrap(preferences[n]).token = R(p).token
              /\ Unwrap(preferences[n]).flags = L(p).updated_flags
              /\ Unwrap(preferences[m]).flags # L(p).updated_flags

\* the values of the known flags, one bit each
C10_KnownFlags == {2 ^ i : i \in 0..20}

\* the values with no bit outside the 21 known positions
C10_KnownBits == 0..(2 ^ 21 - 1)

\* bit i of the OR of the entries that are in passing
C10_BitOfOr(entries, passing, i) ==
    IF \E j \in 1..Len(entries) :
          entries[j] \in passing /\ BitAt(entries[j], i) = 1
    THEN 1 ELSE 0

\* the row of the request's token holds the OR of the passing entries and
\* enabled iff the form said "on"
C10_Written(p, passing) ==
    \A n \in Npubs :
        (IsSome(preferences[n]) /\ Unwrap(preferences[n]).token = R(p).token) =>
            LET row == Unwrap(preferences[n])
                entries == IF IsSome(R(p).flags) THEN Unwrap(R(p).flags) ELSE <<>>
            IN  /\ row.flags \in 0..(2 ^ 21 - 1)
                /\ \A i \in 0..20 :
                      BitAt(row.flags, i) = C10_BitOfOr(entries, passing, i)
                /\ row.enabled = (R(p).enabled = Some("on"))

\* C10 as stated: after a successful update_preferences the stored flags are
\* the OR of the submitted entries that are the value of a known flag, and
\* enabled is true iff the form field is "on".
C10_OrOfKnownFlags ==
    \A p \in Procs :
        Answered(p, "update_preferences", 303) => C10_Written(p, C10_KnownFlags)

\* C10 amended: the stored flags are the OR of the submitted entries that have
\* no bit outside the 21 known positions (an entry may combine several
\* flags), and enabled is true iff the form field is "on".
C10_OrOfEntriesOfKnownBits ==
    \A p \in Procs :
        Answered(p, "update_preferences", 303) => C10_Written(p, C10_KnownBits)

\* an update_preferences with the entries 3, 2097153 and -1 stored 3
C10_Witness ==
    \E p \in Procs, n \in Npubs :
        /\ Answered(p, "update_preferences", 303)
        /\ R(p).flags = Some(<<3, 2097153, -1>>)
        /\ IsSome(preferences[n])
        /\ Unwrap(preferences[n]).token = R(p).token
        /\ Unwrap(preferences[n]).flags = 3

\* the bits of a stored flags value outside the known flag positions
C11_UnknownBits(flags) == flags - from_bits_truncate(flags)

\* C11: the steps of preferences and update_preferences leave the bits of
\* every stored flags value that lie outside the known flag positions
\* unchanged in the store.
C11_UnknownStoredBitsKept ==
    [][\A p \in Procs :
        (Steps(p) /\ pc'[p] # "idle"
         /\ Unwrap(req'[p]).h \in {"preferences", "update_preferences"}) =>
            \A n \in Npubs :
                IsSome(preferences[n]) =>
                    /\ IsSome(preferences'[n])
                    /\ C11_UnknownBits(Unwrap(preferences'[n]).flags)
                           = C11_UnknownBits(Unwrap(preferences[n]).flags)
      ]_vars

\* the calls that returned true with a timestamp in [a, a + width]
C12_GrantedIn(a, width) ==
    {i \in 1..Len(granted) : a <= granted[i] /\ granted[i] <= a + width}

\* C12: with non-decreasing timestamps, in every interval as wide as the
\* window, its endpoints included, at most limit calls of allow returned true.
C12_AtMostLimitPerWindow ==
    IsSome(slidingWindow) =>
        \A a \in Timestamps :
            Cardinality(C12_GrantedIn(a, Unwrap(slidingWindow).window))
                <= Unwrap(slidingWindow).limit

\* a window that was full let a call through once its oldest hit had left,
\* and the interval that ends there holds exactly limit grants
C12_Witness ==
    /\ IsSome(slidingWindow)
    /\ LET w == Unwrap(slidingWindow)
       IN  /\ w.limit = 2 /\ w.window = 2
           /\ Len(granted) > w.limit
           /\ granted[Len(granted)] = w.last_seen
           /\ Cardinality(C12_GrantedIn(w.last_seen - w.window, w.window))
                 = w.limit

\* the grants before the last call
C13_Before ==
    IF Unwrap(lastAllow).allowed THEN SubSeq(granted, 1, Len(granted) - 1)
    ELSE granted

\* every earlier grant was made at the time of the last call or left the
\* window before it
C13_Burst ==
    \A i \in 1..Len(C13_Before) :
        \/ C13_Before[i] = Unwrap(lastAllow).t
        \/ Unwrap(lastAllow).t - C13_Before[i] > Unwrap(slidingWindow).window

\* C13: of the calls made at one time t, with every earlier hit more than the
\* window in the past, the first limit are allowed and every further one is
\* denied.
C13_LimitPerBurst ==
    (IsSome(lastAllow) /\ C13_Burst) =>
        (Unwrap(lastAllow).allowed <=>
            Cardinality({i \in 1..Len(C13_Before) :
                            C13_Before[i] = Unwrap(lastAllow).t})
                < Unwrap(slidingWindow).limit)

\* limit 2, window 10 s: allow, allow, deny; 11 s later: allow, allow, deny
C13_Witness ==
    /\ IsSome(lastAllow)
    /\ Unwrap(slidingWindow).limit = 2
    /\ Unwrap(slidingWindow).window = 10
    /\ granted = <<0, 0, 11, 11>>
    /\ lastAllow = Some([t |-> 11, allowed |-> FALSE])

\* the entry of key, if any, holds fewer than limit hits made within the
\* window before now
C14_Room(map, key, limit, window) ==
    IsSome(map[key]) =>
        Cardinality({i \in 1..Len(Unwrap(map[key]).hits) :
                        now - Unwrap(map[key]).hits[i] <= window}) < limit

\* the value check returns: room in the window of the address and of every
\* dimension provided
C14_Verdict(c, l) ==
    c.allowed <=>
        /\ C14_Room(l.by_ip, c.ip, IP_LIMIT, IP_WINDOW)
        /\ IsSome(c.email) =>
              C14_Room(l.by_email, to_lowercase(Unwrap(c.email)),
                       EMAIL_LIMIT, EMAIL_WINDOW)
        /\ IsSome(c.npub_sender) =>
              C14_Room(l.by_npub_sender, Unwrap(c.npub_sender),
                       NPUB_LIMIT, NPUB_WINDOW)
        /\ IsSome(c.npub_receiver) =>
              C14_Room(l.by_npub_receiver, Unwrap(c.npub_receiver),
                       NPUB_LIMIT, NPUB_WINDOW)

\* C14 as stated: check returns true iff allow does for the address and for
\* every dimension provided (the email lower-cased), and the map of a
\* dimension that is not provided is left unchanged.
C14_CheckIffEveryProvided ==
    [][lastCheck' # lastCheck =>
        LET c == Unwrap(lastCheck')
            l == Unwrap(limiter)
            after == Unwrap(limiter')
        IN  /\ C14_Verdict(c, l)
            /\ ~IsSome(c.email) => after.by_email = l.by_email
            /\ ~IsSome(c.npub_sender) => after.by_npub_sender = l.by_npub_sender
            /\ ~IsSome(c.npub_receiver) =>
                  after.by_npub_receiver = l.by_npub_receiver
      ]_vars

\* every entry is as it was, or was idle for more than MAX_IDLE at a check
\* that is due to prune and is gone
C14_OnlyPruned(before, after, l) ==
    \A k \in DOMAIN before :
        \/ after[k] = before[k]
        \/ /\ after[k] = None
           /\ now - l.last_prune >= PRUNE_INTERVAL
           /\ now - Unwrap(before[k]).last_seen > MAX_IDLE

\* C14 amended: the same verdict; in the map of a dimension that is not
\* provided no entry gets a hit or a new last_seen, the receiver map is
\* unchanged, and the email and sender maps change only by the pruning of idle
\* entries at the start of a check that is due to prune.
C14_CheckIffEveryProvidedPruning ==
    [][lastCheck' # lastCheck =>
        LET c == Unwrap(lastCheck')
            l == Unwrap(limiter)
            after == Unwrap(limiter')
        IN  /\ C14_Verdict(c, l)
            /\ ~IsSome(c.email) => C14_OnlyPruned(l.by_email, after.by_email, l)
            /\ ~IsSome(c.npub_sender) =>
                  C14_OnlyPruned(l.by_npub_sender, after.by_npub_sender, l)
            /\ ~IsSome(c.npub_receiver) =>
                  after.by_npub_receiver = l.by_npub_receiver
      ]_vars

\* a check with a mixed-case email and no sender was denied although the
\* address had room, after an earlier check had pruned
C14_Witness ==
    /\ IsSome(lastCheck)
    /\ ~Unwrap(lastCheck).allowed
    /\ Unwrap(lastCheck).email = Some("A@x.co")
    /\ Unwrap(lastCheck).npub_sender = None
    /\ Unwrap(lastCheck).npub_receiver = None
    /\ Len(Unwrap(Unwrap(limiter).by_ip[Unwrap(lastCheck).ip]).hits) < IP_LIMIT
    /\ Unwrap(limiter).last_prune > 0

\* C15: the proxy sends a GET for a request only after the npub decoded, the
\* URL parsed, the rate limiter allowed it, the URL was https without
\* credentials and with a host, every address the host resolved to was
\* outside the blocklist and the signature verified over {npub, url} under
\* the npub's key; when a resolved address of the request's host is blocked
\* the answer is 400 proxy_invalid_url and no GET is sent.
C15_GetOnlyAfterAllChecks ==
    [][LET r == Unwrap(proxy'.req)
           first == proxy'.passed[1]
       IN  /\ Len(proxy'.gets) > Len(proxy.gets) =>
                /\ validate_npub(r.npub) # None
                /\ Url_parse(r.url) # None
                /\ r.allowed
                /\ proxy'.passed # <<>>
                /\ first.url = Unwrap(Url_parse(r.url))
                /\ first.url.scheme = "https"
                /\ first.url.username = "" /\ first.url.password = None
                /\ first.url.host # None
                /\ \A i \in 1..Len(first.ips) :
                      ~is_blocked_proxy_host_ip(first.ips[i])
                /\ r.signature.wellformed
                /\ r.signature.key = XOnly(r.npub)
                /\ r.signature.msg = <<r.npub, r.url>>
           /\ (/\ proxy.pc = "check_url"
               /\ proxy'.lookup # None /\ Unwrap(proxy'.lookup) # None
               /\ \E i \in 1..Len(Unwrap(Unwrap(proxy'.lookup))) :
                     is_blocked_proxy_host_ip(Unwrap(Unwrap(proxy'.lookup))[i]))
              => /\ proxy'.pc = "done"
                 /\ Unwrap(proxy'.resp).status = 400
                 /\ Unwrap(proxy'.resp).msg = "proxy_invalid_url"
                 /\ proxy'.gets = <<>>]_vars

\* the GET of a signed request has gone out after its host resolved to a
\* public address
C15_Witness ==
    /\ proxy.pc = "body"
    /\ proxy.gets = <<Unwrap(Url_parse("https://good.example/a"))>>
    /\ proxy.passed[1].ips = <<"93.184.216.34">>
    /\ Unwrap(proxy.req).signature = Sign("keyA", <<"npub1a", "https://good.example/a">>)

\* C16: every URL the redirect loop fetches, the request's and each redirect
\* target resolved from Location against the current URL, has passed the
\* validation (https, no credentials, a host, every resolved address outside
\* the blocklist) before its GET is sent; a redirect target that fails the
\* validation is never fetched.
C16_EveryFetchedUrlValidated ==
    [][LET n == Len(proxy'.gets)
           v == proxy'.passed[n]
           target == Unwrap(proxy.url)
           ips == Unwrap(Unwrap(proxy'.lookup))
       IN  /\ n > Len(proxy.gets) =>
                /\ Len(proxy.passed) = n
                /\ v = proxy.passed[n]
                /\ v.url = proxy'.gets[n]
                /\ v.url.scheme = "https"
                /\ v.url.username = "" /\ v.url.password = None
                /\ v.url.host # None
                /\ \A i \in 1..Len(v.ips) : ~is_blocked_proxy_host_ip(v.ips[i])
                /\ n > 1 =>
                     Some(v.url) = url_join(proxy'.gets[n - 1],
                                       Unwrap(Unwrap(proxy.upstream).location))
           /\ (/\ proxy.pc = "check_redirect"
               /\ \/ target.scheme # "https"
                  \/ target.username # "" \/ target.password # None
                  \/ target.host = None
                  \/ /\ proxy'.lookup # None /\ Unwrap(proxy'.lookup) # None
                     /\ \E i \in 1..Len(ips) : is_blocked_proxy_host_ip(ips[i]))
              => /\ proxy'.pc = "done"
                 /\ proxy'.gets = proxy.gets]_vars

\* a redirect to another host has been followed after its target was checked
C16_Witness ==
    /\ proxy.pc = "body"
    /\ proxy.gets = <<Unwrap(Url_parse("https://good.example/a")),
                      Unwrap(Url_parse("https://other.example/"))>>
    /\ Len(proxy.passed) = 2

\* C17: the fetch loop follows at most 2 redirects: at most 3 GETs are sent
\* for a request, a third 3xx in a row and a 3xx without Location end the
\* request with an error at once, and a request that has started to fetch
\* comes to its answer.
C17_AtMostTwoRedirects ==
    /\ [](/\ Len(proxy.gets) <= 3
          /\ proxy.redirects <= 2
          /\ (/\ proxy.upstream # None
              /\ Unwrap(proxy.upstream).kind = "redirect"
              /\ \/ Len(proxy.gets) = 3
                 \/ Unwrap(proxy.upstream).location = None)
             => /\ proxy.pc = "done"
                /\ Unwrap(proxy.resp).msg = "proxy_invalid_request"
                /\ Unwrap(proxy.resp).status >= 400
                /\ Unwrap(proxy.resp).bytes = 0)
    /\ (proxy.pc = "get" ~> proxy.pc = "done")

\* the third GET was answered with a 3xx that names a Location
C17_Witness ==
    /\ Len(proxy.gets) = 3
    /\ proxy.redirects = 2
    /\ Unwrap(proxy.upstream).kind = "redirect"
    /\ Unwrap(proxy.upstream).location = Some("/b")
    /\ proxy.pc = "done"

\* C18: a request whose upstream redirects to a URL that is not https,
\* answers three GETs in a row with a redirect, or sends a body above 2 MiB
\* is answered with status 400.
C18_UpstreamRejectIs400 ==
    (/\ proxy.pc = "done"
     /\ proxy.upstream # None
     /\ \/ /\ Unwrap(proxy.upstream).kind = "redirect"
           /\ Unwrap(proxy.url).scheme # "https"
        \/ /\ Unwrap(proxy.upstream).kind = "redirect"
           /\ Len(proxy.gets) = 3
        \/ /\ Unwrap(proxy.upstream).kind = "ok"
           /\ proxy.pending # <<>>
           /\ Head(proxy.pending) >= 0
           /\ proxy.body + Head(proxy.pending) > 2 * 1024 * 1024)
    => Unwrap(proxy.resp).status = 400

\* C19: the body returned never exceeds 2 MiB: the running total stays at or
\* below the cap, a body that ends is returned whole (one of exactly 2 MiB
\* too), and the first chunk that would lift the total above the cap ends
\* the request with an error and no part of the body.
C19_BodyAtMostCap ==
    [][LET chunk == Head(proxy.pending)
       IN  /\ proxy'.body <= 2 * 1024 * 1024
           /\ proxy'.resp # None => Unwrap(proxy'.resp).bytes <= 2 * 1024 * 1024
           /\ (proxy.pc = "body" /\ proxy.pending = <<>>) =>
                /\ proxy'.pc = "done"
                /\ Unwrap(proxy'.resp).status = Unwrap(proxy.upstream).status
                /\ Unwrap(proxy'.resp).bytes = proxy.body
           /\ (proxy.pc = "body" /\ proxy.pending # <<>> /\ chunk >= 0) =>
                IF proxy.body + chunk > 2 * 1024 * 1024
                THEN /\ proxy'.pc = "done"
                     /\ Unwrap(proxy'.resp).msg = "proxy_invalid_request"
                     /\ Unwrap(proxy'.resp).bytes = 0
                ELSE /\ proxy'.pc = "body"
                     /\ proxy'.body = proxy.body + chunk]_vars

\* a body of exactly 2 MiB, received in two chunks, has been returned
C19_Witness ==
    /\ proxy.pc = "done"
    /\ proxy.upstream # None
    /\ Unwrap(proxy.upstream).chunks = <<1024 * 1024, 1024 * 1024>>
    /\ Unwrap(proxy.resp) = [status |-> 200, msg |-> "", bytes |-> 2 * 1024 * 1024]

\* C20: for each key (peer address, chain_id, address) of the write policy
\* taken by itself, an event is accepted while fewer than `limit` events of
\* its key were accepted within the window before it, and the next one is
\* rejected with a reason containing "Rate limit exceeded"; events of another
\* chain address or of another peer count in a window of their own (by
\* default 6 per 60 s: 6 accepted, the 7th rejected).
C20_FirstLimitPerKey ==
    (IsSome(admits) /\ IsSome(Unwrap(admits).last)) =>
    LET h == Unwrap(admits)
        l == Unwrap(blockRateLimiter).limiter
        e == Unwrap(h.last)
        named(event) ==
            {i \in 1..Len(event) :
                /\ event[i].kind = "i"
                /\ event[i].chain = "bitcredit"
                /\ event[i].chain_id \in
                      {Some("bill"), Some("identity"), Some("company")}}
        key(addr, event) ==
            LET i == CHOOSE i \in named(event) : \A j \in named(event) : i <= j
            IN  <<addr, Unwrap(event[i].chain_id), event[i].address>>
        same == {x \in DOMAIN h.accepted :
                    /\ named(x[2]) # {}
                    /\ key(x[1], x[2]) = key(e.addr, e.event)}
        within == {p \in UNION {{<<x, i>> : i \in 1..Len(h.accepted[x])} :
                                   x \in same} :
                      e.t - h.accepted[p[1]][p[2]] <= l.window}
        before == Cardinality(within) - (IF e.result = <<"Accept">> THEN 1 ELSE 0)
    IN  IF named(e.event) = {} \/ before < l.limit
        THEN e.result = <<"Accept">>
        ELSE /\ e.result[1] = "Reject"
             /\ \E i \in 2..Len(e.result) : e.result[i] = "Rate limit exceeded"

\* with the defaults, six events of a key have been accepted within the
\* window and the next one is rejected
C20_Witness ==
    /\ IsSome(admits)
    /\ Unwrap(blockRateLimiter).limiter.limit = 6
    /\ Unwrap(blockRateLimiter).limiter.window = 60
    /\ Unwrap(admits).n = 2
    /\ \E x \in DOMAIN Unwrap(admits).accepted :
          /\ Unwrap(admits).accepted[x] = <<0, 0, 0, 0, 0, 0>>
          /\ Unwrap(Unwrap(admits).last).addr = x[1]
          /\ Unwrap(Unwrap(admits).last).event = x[2]
          /\ Unwrap(Unwrap(admits).last).result[1] = "Reject"

\* C21: an event without an "i" tag that names a bitcredit address of a
\* configured chain (bill, identity, company) is accepted by the write
\* policy, also while a key is at its limit, and admitting it leaves the
\* limiter as it was.
C21_OtherEventsPass ==
    [][(/\ IsSome(admits) /\ IsSome(admits')
        /\ Unwrap(admits').n = Unwrap(admits).n + 1
        /\ LET event == Unwrap(Unwrap(admits').last).event
           IN  ~\E i \in 1..Len(event) :
                   /\ event[i].kind = "i"
                   /\ event[i].chain = "bitcredit"
                   /\ event[i].chain_id \in
                         {Some("bill"), Some("identity"), Some("company")})
       => /\ Unwrap(Unwrap(admits').last).result = <<"Accept">>
          /\ blockRateLimiter' = blockRateLimiter]_vars

\* an event whose tags name another prefix, no chain_id and a chain that is
\* not configured has been accepted while a key is at its limit
C21_Witness ==
    /\ IsSome(admits)
    /\ Unwrap(admits).n = 2
    /\ Unwrap(Unwrap(admits).last).event # <<>>
    /\ Unwrap(Unwrap(admits).last).result = <<"Accept">>
    /\ \A i \in 1..Len(Unwrap(Unwrap(admits).last).event) :
          \/ Unwrap(Unwrap(admits).last).event[i].chain # "bitcredit"
          \/ Unwrap(Unwrap(admits).last).event[i].chain_id
                \notin {Some("bill"), Some("identity"), Some("company")}
    /\ \E k \in DOMAIN Unwrap(blockRateLimiter).limiter.keys :
          /\ IsSome(Unwrap(blockRateLimiter).limiter.keys[k])
          /\ Len(Unwrap(Unwrap(blockRateLimiter).limiter.keys[k]).hits)
                = Unwrap(blockRateLimiter).limiter.limit

\* C22: chain events are limited per (source IP, chain_id:address): events
\* with the same chain_id and address from the same source IP count in one
\* window, whatever the source port of their connection.
C22_KeyedBySourceIp ==
    (IsSome(admits) /\ IsSome(Unwrap(admits).last)) =>
    LET h == Unwrap(admits)
        l == Unwrap(blockRateLimiter).limiter
        e == Unwrap(h.last)
        named(event) ==
            {i \in 1..Len(event) :
                /\ event[i].kind = "i"
                /\ event[i].chain = "bitcredit"
                /\ event[i].chain_id \in
                      {Some("bill"), Some("identity"), Some("company")}}
        key(addr, event) ==
            LET i == CHOOSE i \in named(event) : \A j \in named(event) : i <= j
            IN  <<addr.ip, Unwrap(event[i].chain_id), event[i].address>>
        same == {x \in DOMAIN h.accepted :
                    /\ named(x[2]) # {}
                    /\ key(x[1], x[2]) = key(e.addr, e.event)}
        within == {p \in UNION {{<<x, i>> : i \in 1..Len(h.accepted[x])} :
                                   x \in same} :
                      e.t - h.accepted[p[1]][p[2]] <= l.window}
        before == Cardinality(within) - (IF e.result = <<"Accept">> THEN 1 ELSE 0)
    IN  named(e.event) # {} => (e.result = <<"Accept">> <=> before < l.limit)

\* C23: a register that finds the stored challenge older than 120 s answers
\* 400 "challenge expired" and returns at once, before the email is sent,
\* with no row written and the stale challenge still stored; a later start
\* for the npub replaces the row with a fresh challenge created now, which a
\* register can use.
C23_ExpiredChallengeStays ==
    [][\A p \in Procs :
        /\ (/\ pc[p] = "idle" /\ pc'[p] # "idle"
            /\ Unwrap(req'[p]).h = "register"
            /\ Unwrap(req'[p]).npub \in Npubs
            /\ IsSome(challenges[Unwrap(req'[p]).npub])
            /\ now > Unwrap(challenges[Unwrap(req'[p]).npub]).created_at + 120)
           => /\ pc'[p] = "done"
              /\ Unwrap(resp'[p]) \in
                    {[status |-> 400, msg |-> "challenge expired"],
                     [status |-> 400, msg |-> "Invalid email"],
                     [status |-> 429, msg |-> "Please try again later"],
                     [status |-> 500, msg |-> "challenge error"]}
              /\ <<challenges, verification, preferences>>' =
                    <<challenges, verification, preferences>>
        /\ (/\ resp[p] = None
            /\ resp'[p] = Some([status |-> 400, msg |-> "challenge expired"]))
           => /\ Unwrap(req'[p]).h = "register"
              /\ IsSome(challenges'[Unwrap(req'[p]).npub])
              /\ now > Unwrap(challenges'[Unwrap(req'[p]).npub]).created_at + 120
        /\ (/\ pc[p] = "start_insert"
            /\ lastStart'[Unwrap(req[p]).npub] # lastStart[Unwrap(req[p]).npub])
           => /\ challenges'[Unwrap(req[p]).npub] =
                    Some([challenge |-> Unwrap(loc[p]).challenge,
                          created_at |-> now])
              /\ lastStart'[Unwrap(req[p]).npub] = Some(Unwrap(loc[p]).challenge)
        /\ (/\ pc[p] = "idle" /\ pc'[p] = "done"
            /\ Unwrap(req'[p]).h = "register"
            /\ Unwrap(req'[p]).npub \in Npubs
            /\ IsSome(challenges[Unwrap(req'[p]).npub])
            /\ now <= Unwrap(challenges[Unwrap(req'[p]).npub]).created_at + 120)
           => Unwrap(resp'[p]).msg # "challenge expired"]_vars

\* the register of a challenge issued 121 s ago has been answered "challenge
\* expired" and the row is still stored
C23_Witness ==
    /\ now = 121
    /\ resp[1] = Some([status |-> 400, msg |-> "challenge expired"])
    /\ challenges["npub1a"] = Some([challenge |-> 1, created_at |-> 0])
    /\ verification["npub1a"] = None
    /\ preferences["npub1a"] = None

\* C24: once a file is stored under a hash, every later upload and get leaves
\* that hash with the same bytes and size: an upload of the same body changes
\* nothing, and nothing deletes or rewrites a stored file.
C24_StoredFilesStay ==
    [][/\ \A h \in DOMAIN files : IsSome(files[h]) => files'[h] = files[h]
       /\ (/\ IsSome(lastBlob') /\ Unwrap(lastBlob').h = "upload"
           /\ IsSome(files[sha256(Unwrap(lastBlob').body)]))
          => files' = files
       /\ (IsSome(lastBlob') /\ Unwrap(lastBlob').h = "get") => files' = files
       /\ \A h \in DOMAIN files :
             (files[h] = None /\ IsSome(files'[h]))
             => /\ Unwrap(lastBlob').h = "upload"
                /\ Unwrap(lastBlob').status = 200
                /\ h = sha256(Unwrap(lastBlob').body)
                /\ Unwrap(files'[h]) = [bytes |-> Unwrap(lastBlob').body.bytes,
                                        size |-> Unwrap(lastBlob').body.len]]_vars

\* the body of 65 bytes has been uploaded a second time while the body of
\* 1,000,000 bytes is stored as well
C24_Witness ==
    /\ files["sha256:04b"] = Some([bytes |-> "04b", size |-> 65])
    /\ files["sha256:04a.."] = Some([bytes |-> "04a..", size |-> 1000000])
    /\ IsSome(lastBlob)
    /\ Unwrap(lastBlob).h = "upload"
    /\ Unwrap(lastBlob).status = 200
    /\ Unwrap(lastBlob).body.bytes = "04b"

\* C25: check calls allow on every provided dimension, also after an earlier
\* one has denied: each provided dimension that is below its limit records
\* the hit, whatever the verdict of the request.
C25_EveryDimensionRecords ==
    [][(IsSome(limiter) /\ lastCheck' # lastCheck) =>
       LET c == Unwrap(lastCheck')
           before == Unwrap(limiter)
           after == Unwrap(limiter')
           live(w, window) ==
               IF w = None THEN 0
               ELSE Cardinality({i \in 1..Len(Unwrap(w).hits) :
                                    now - Unwrap(w).hits[i] <= window})
           recorded(old, new, limit, window) ==
               /\ IsSome(new)
               /\ Unwrap(new).last_seen = now
               /\ live(old, window) < limit =>
                    /\ Len(Unwrap(new).hits) = live(old, window) + 1
                    /\ Unwrap(new).hits[Len(Unwrap(new).hits)] = now
       IN  /\ recorded(before.by_ip[c.ip], after.by_ip[c.ip], 100, 600)
           /\ IsSome(c.email) =>
                recorded(before.by_email["a@x.co"], after.by_email["a@x.co"],
                         30, 86400)
           /\ IsSome(c.npub_sender) =>
                recorded(before.by_npub_sender[Unwrap(c.npub_sender)],
                         after.by_npub_sender[Unwrap(c.npub_sender)], 100, 600)
           /\ IsSome(c.npub_receiver) =>
                recorded(before.by_npub_receiver[Unwrap(c.npub_receiver)],
                         after.by_npub_receiver[Unwrap(c.npub_receiver)],
                         100, 600)]_vars

\* a check denied by the address and by the sender, both at their limit, has
\* recorded the first hit of the email and of the receiver
C25_Witness ==
    /\ IsSome(lastCheck)
    /\ Unwrap(lastCheck).n = 1
    /\ ~Unwrap(lastCheck).allowed
    /\ now = 0
    /\ Len(Unwrap(Unwrap(limiter).by_ip["203.0.113.7"]).hits) = 100
    /\ IsSome(Unwrap(lastCheck).email)
    /\ Unwrap(Unwrap(limiter).by_email["a@x.co"]).hits = <<0>>
    /\ IsSome(Unwrap(lastCheck).npub_sender)
    /\ Len(Unwrap(Unwrap(limiter).by_npub_sender["npub1a"]).hits) = 100
    /\ IsSome(Unwrap(lastCheck).npub_receiver)
    /\ Unwrap(Unwrap(limiter).by_npub_receiver["npub1a"]).hits = <<0>>

\* C26: a check that runs with now - last_prune >= 10 min prunes first, and
\* then every entry left in each of the four maps has now - last_seen <= 24 h;
\* a check with now - last_prune < 10 min removes no entry.
C26_PruneLeavesOnlyRecent ==
    [][(IsSome(limiter) /\ lastCheck' # lastCheck) =>
       LET before == Unwrap(limiter)
           after == Unwrap(limiter')
           maps(l) == <<l.by_ip, l.by_email, l.by_npub_sender, l.by_npub_receiver>>
       IN  \A m \in 1..4 : \A k \in DOMAIN maps(after)[m] :
              IF now - before.last_prune >= 600
              THEN IsSome(maps(after)[m][k]) =>
                      now - Unwrap(maps(after)[m][k]).last_seen <= 86400
              ELSE IsSome(maps(before)[m][k]) => IsSome(maps(after)[m][k])]_vars

\* C27: NostrRateLimiter prunes as RateLimiter does: a call with
\* now - last_prune >= 10 min removes exactly the keys last seen more than
\* 24 h ago and keeps every key seen within 24 h (the key of the call is in
\* use again at once), and a call with now - last_prune < 10 min removes
\* nothing and leaves last_prune.
C27_RelayPrunesAlike ==
    [][(/\ IsSome(admits) /\ IsSome(admits')
        /\ Unwrap(admits').n = Unwrap(admits).n + 1
        /\ \E i \in 1..Len(Unwrap(Unwrap(admits').last).event) :
              LET tag == Unwrap(Unwrap(admits').last).event[i]
              IN  /\ tag.kind = "i" /\ tag.chain = "bitcredit"
                  /\ tag.chain_id \in
                        {Some("bill"), Some("identity"), Some("company")})
       => LET before == Unwrap(blockRateLimiter).limiter
              after == Unwrap(blockRateLimiter').limiter
              due == now - before.last_prune >= 600
              idle(k) == /\ IsSome(before.keys[k])
                         /\ now - Unwrap(before.keys[k]).last_seen > 86400
              called(k) == /\ IsSome(after.keys[k])
                           /\ after.keys[k] # before.keys[k]
                           /\ Unwrap(after.keys[k]).last_seen = now
          IN  /\ after.last_prune = IF due THEN now ELSE before.last_prune
              /\ Cardinality({k \in DOMAIN after.keys : called(k)}) <= 1
              /\ \A k \in DOMAIN after.keys :
                    \/ called(k)
                    \/ after.keys[k] =
                          IF due /\ idle(k) THEN None ELSE before.keys[k]]_vars

\* a call made 86401 s after the last prune has removed a key that was last
\* seen at time 0
C27_Witness ==
    /\ IsSome(admits)
    /\ now = 86401
    /\ Unwrap(blockRateLimiter).limiter.last_prune = 86401
    /\ \E x \in DOMAIN Unwrap(admits).accepted :
          /\ Len(x[2]) = 1
          /\ Unwrap(admits).accepted[x] # <<>>
          /\ Unwrap(admits).accepted[x][1] = 0
          /\ Unwrap(blockRateLimiter).limiter.keys[
                x[1].ip \o ":" \o x[1].port \o ":"
                   \o Unwrap(x[2][1].chain_id) \o ":" \o x[2][1].address] = None

\* C28: in start, register, send and proxy req the mutex of the rate limiter
\* is acquired, check is evaluated and the mutex is released before any
\* database, DNS, email or upstream operation: the holder of the mutex is at
\* its check and has done no such operation, a task that has done one was
\* allowed by its check and does not hold the mutex, at most one task is
\* between acquire and release, and a task waiting for the mutex waits for a
\* holder that is at its check.
C28_NoIoUnderTheMutex ==
    /\ \A p \in Procs :
          /\ mutex = Some(p) =>
                /\ tasks[p].pc \in {"check", "drop"}
                /\ tasks[p].io = <<>>
          /\ tasks[p].pc \in {"check", "drop"} => mutex = Some(p)
          /\ (tasks[p].pc = "io" \/ tasks[p].io # <<>>) =>
                /\ tasks[p].allowed = Some(TRUE)
                /\ mutex # Some(p)
          /\ (tasks[p].pc = "lock" /\ IsSome(mutex)) =>
                tasks[Unwrap(mutex)].pc \in {"check", "drop"}
    /\ Cardinality({p \in Procs : tasks[p].pc \in {"check", "drop"}}) <= 1

\* a register has sent its email and has the rows to persist, while a proxy
\* req holds the mutex with its check evaluated
C28_Witness ==
    \E p, q \in Procs :
       /\ tasks[p].handler = "register"
       /\ tasks[p].pc = "io"
       /\ tasks[p].io = <<"db", "db", "email">>
       /\ tasks[q].handler = "req"
       /\ tasks[q].pc = "drop"
       /\ mutex = Some(q)

\* C29: register sends the confirmation email before it persists the
\* confirmation and preferences rows: the rows are written only by the step
\* that follows a successful send, a failed send returns 500 with neither row
\* written, and a failed persist after a successful send returns 500 with
\* neither row written.
C29_EmailBeforeRows ==
    [][\A p \in Procs :
          (Steps(p) /\ IsSome(req'[p]) /\ Unwrap(req'[p]).h = "register") =>
             /\ (verification' # verification \/ preferences' # preferences) =>
                   /\ pc[p] = "reg_persist"
                   /\ Unwrap(resp'[p]).status = 200
             /\ (pc[p] = "reg_email" /\ pc'[p] # "reg_persist") =>
                   /\ Unwrap(resp'[p]) =
                         [status |-> 500, msg |-> "send mail confirmation error"]
                   /\ UNCHANGED <<verification, preferences>>
             /\ (pc[p] = "reg_persist" /\ Unwrap(resp'[p]).status # 200) =>
                   /\ Unwrap(resp'[p]) =
                         [status |-> 500, msg |-> "mail confirmation error"]
                   /\ UNCHANGED <<verification, preferences>>]_vars

\* a register whose email was sent has failed to persist: 500, and the npub
\* has neither row
C29_Witness ==
    \E p \in Procs :
       /\ Answered(p, "register", 500)
       /\ Unwrap(resp[p]).msg = "mail confirmation error"
       /\ L(p).preferences_token # 0
       /\ verification[R(p).npub] = None
       /\ preferences[R(p).npub] = None

\* C30: start answers 200 with a fresh challenge and ttl_seconds = 120
\* whenever the npub is valid and the rate limiter allows, also when
\* persisting the challenge failed; then the stored challenges are unchanged,
\* and no register signed over a challenge returned that way passes.
C30_StartHidesFailedPersist ==
    [][\A p \in Procs :
          (Steps(p) /\ IsSome(req'[p])) =>
             /\ (Unwrap(req'[p]).h = "start" /\ pc[p] = "idle"
                   /\ validate_npub(Unwrap(req'[p]).npub) # None) =>
                   \/ /\ pc'[p] = "done"
                      /\ Unwrap(resp'[p]).status = 429
                   \/ /\ pc'[p] = "start_insert"
                      /\ Unwrap(loc'[p]).challenge \notin unsaved
                      /\ \A n \in Npubs :
                            IsSome(challenges[n]) =>
                               Unwrap(challenges[n]).challenge
                                  # Unwrap(loc'[p]).challenge
             /\ pc[p] = "start_insert" =>
                   /\ pc'[p] = "done"
                   /\ Unwrap(resp'[p]) =
                         [status |-> 200, msg |-> "challenge",
                          challenge |-> Unwrap(loc[p]).challenge,
                          ttl_seconds |-> 120]
                   /\ \/ /\ unsaved' = unsaved \cup {Unwrap(loc[p]).challenge}
                         /\ UNCHANGED challenges
                      \/ /\ UNCHANGED unsaved
                         /\ challenges' = [challenges EXCEPT
                               ![Unwrap(req[p]).npub] =
                                  Some([challenge |-> Unwrap(loc[p]).challenge,
                                        created_at |-> now])]
             /\ (Unwrap(req'[p]).h = "register"
                   /\ pc'[p] \in {"reg_remove", "reg_email", "reg_persist"}) =>
                   Unwrap(req'[p]).signed_challenge.msg \notin unsaved
             /\ (Unwrap(req'[p]).h = "register" /\ pc'[p] = "done"
                   /\ Unwrap(req'[p]).signed_challenge.wellformed
                   /\ Unwrap(req'[p]).signed_challenge.msg \in unsaved) =>
                   Unwrap(resp'[p]).status # 200]_vars

\* a register signed by the npub's key over a challenge that start returned
\* without storing it is answered 400 while an earlier challenge is stored
C30_Witness ==
    \E p \in Procs :
       /\ Answered(p, "register", 400)
       /\ R(p).signed_challenge = Sign(XOnly(R(p).npub), 2)
       /\ unsaved = {2}
       /\ R(p).npub \in Npubs
       /\ challenges[R(p).npub] = Some([challenge |-> 1, created_at |-> 0])
       /\ Unwrap(resp[p]).msg = "invalid challenge"

\* C31: a challenge written by start is consumed by at most one successful
\* register: of the concurrent registers for one npub that carry a valid
\* signature over the same stored challenge at most one sends a confirmation
\* email and persists rows, and a register that finds the challenge consumed
\* is answered 400 "No challenge existing".
C31_ChallengeConsumedOnce ==
    /\ [](\A p, q \in Procs :
            (/\ p # q
             /\ pc[p] = "reg_persist"
             /\ pc[q] = "reg_persist"
             /\ R(p).npub = R(q).npub)
            => L(p).challenge.challenge # L(q).challenge.challenge)
    /\ [][\A p \in Procs :
            (/\ pc[p] = "idle" /\ Steps(p)
             /\ Unwrap(req'[p]).h = "register"
             /\ Unwrap(req'[p]).npub \in Npubs
             /\ email_is_valid(Unwrap(req'[p]).email)
             /\ challenges[Unwrap(req'[p]).npub] = None)
            => Unwrap(resp'[p]) =
                  [status |-> 400, msg |-> "No challenge existing"]]_vars

\* a confirmation row is unconfirmed and comes with a preferences row of the
\* same npub and email that is not confirmed
ConfirmationRowsPaired ==
    \A n \in Npubs :
       IsSome(verification[n]) =>
          /\ ~Unwrap(verification[n]).confirmed
          /\ IsSome(preferences[n])
          /\ Unwrap(preferences[n]).email = Unwrap(verification[n]).email
          /\ ~Unwrap(preferences[n]).email_confirmed

\* confirm_email never answers "email already confirmed" and always finds
\* the preferences row of the confirmation it read
ConfirmDenialsNeverTaken ==
    \A p \in Procs :
       (Steps(p) /\ IsSome(req'[p]) /\ Unwrap(req'[p]).h = "confirm_email") =>
          /\ pc'[p] = "done" =>
                Unwrap(resp'[p]).msg # "email already confirmed"
          /\ pc[p] = "conf_prefs" =>
                IsSome(preferences[Unwrap(loc[p]).email_confirmation.npub])

C33_EnabledOnlyWhenConfirmed ==
    /\ [](\A n \in Npubs :
            (IsSome(preferences[n]) /\ Unwrap(preferences[n]).enabled)
            => Unwrap(preferences[n]).email_confirmed)
    /\ [][\A p \in Procs :
            (/\ pc[p] = "upd_write" /\ Steps(p)
             /\ Unwrap(preferences[Unwrap(loc[p]).email_preferences.npub]).token
                   # Unwrap(req[p]).token)
            => UNCHANGED preferences]_vars

\* an update_preferences with enabled = on has written after a register
\* replaced the row it had read: it is redirected, and the row of the new
\* register is neither enabled nor confirmed
C33_Witness ==
    \E p \in Procs :
       /\ Answered(p, "update_preferences", 303)
       /\ R(p).enabled = Some("on")
       /\ L(p).email_preferences.email_confirmed
       /\ LET row == Unwrap(preferences[L(p).email_preferences.npub])
          IN  /\ row.token # R(p).token
              /\ ~row.enabled
              /\ ~row.email_confirmed

\* C34: at most one confirmation token and one preferences token are valid
\* per npub. A successful register leaves the npub's rows with the tokens it
\* drew, which no row held before, so the tokens of an earlier register are
\* in no row; and a confirm_email, preferences or update_preferences request
\* with a token that is in no row of its table is answered 400 "invalid
\* token" and changes nothing.
C34_OldTokensRejected ==
    /\ [](\A n, m \in Npubs :
            /\ (n # m /\ IsSome(verification[n]) /\ IsSome(verification[m]))
                  => Unwrap(verification[n]).token # Unwrap(verification[m]).token
            /\ (n # m /\ IsSome(preferences[n]) /\ IsSome(preferences[m]))
                  => Unwrap(preferences[n]).token # Unwrap(preferences[m]).token)
    /\ [][\A p \in Procs :
            /\ (/\ pc[p] = "reg_persist" /\ Steps(p)
                /\ Unwrap(resp'[p]).status = 200)
               => LET n == Unwrap(req[p]).npub
                  IN  /\ Unwrap(verification'[n]).token =
                            Unwrap(loc[p]).email_confirmation_token
                      /\ Unwrap(preferences'[n]).token =
                            Unwrap(loc[p]).preferences_token
                      /\ \A m \in Npubs :
                            /\ IsSome(verification[m]) =>
                                  Unwrap(verification[m]).token
                                     # Unwrap(verification'[n]).token
                            /\ IsSome(preferences[m]) =>
                                  Unwrap(preferences[m]).token
                                     # Unwrap(preferences'[n]).token
            /\ (/\ pc[p] = "idle" /\ Steps(p)
                /\ Unwrap(req'[p]).h \in
                      {"confirm_email", "preferences", "update_preferences"}
                /\ IF Unwrap(req'[p]).h = "confirm_email"
                   THEN \A n \in Npubs :
                           IsSome(verification[n]) =>
                              Unwrap(verification[n]).token
                                 # Unwrap(req'[p]).token
                   ELSE \A n \in Npubs :
                           IsSome(preferences[n]) =>
                              Unwrap(preferences[n]).token
                                 # Unwrap(req'[p]).token)
               => /\ pc'[p] = "done"
                  /\ Unwrap(resp'[p]) =
                        [status |-> 400, msg |-> "invalid token"]
                  /\ UNCHANGED store]_vars

\* after a second register for the npub, a confirm_email with the
\* confirmation token of the first is answered 400 "invalid token"
C34_Witness ==
    \E p \in Procs :
       /\ Answered(p, "confirm_email", 400)
       /\ R(p).token = 1
       /\ Unwrap(resp[p]).msg = "invalid token"
       /\ verification["npub1a"] # None
       /\ Unwrap(verification["npub1a"]).token = 3
       /\ Unwrap(preferences["npub1a"]).token = 4

\* C35: at every hop of a proxy fetch the address the HTTP client connects to
\* is one of the addresses check_url resolved and tested for that hop, so it
\* is never a blocked one.
C35_ConnectsToCheckedAddress ==
    \A i \in 1..Len(proxy.connects) :
       /\ i <= Len(proxy.passed)
       /\ \E j \in 1..Len(proxy.passed[i].ips) :
             proxy.passed[i].ips[j] = proxy.connects[i]
       /\ ~is_blocked_proxy_host_ip(proxy.connects[i])

\* C36: pruning never changes a decision of RateLimiter: every check returns
\* what the same check returns on the limiter that the same calls leave when
\* none of them prunes.
C36_PruningChangesNoDecision ==
    [][(IsSome(limiter) /\ lastCheck' # lastCheck) =>
          LET c == Unwrap(lastCheck')
          IN  /\ c.allowed =
                    check_never_pruning(Unwrap(unpruned), now, c.ip, c.email,
                                        c.npub_sender, c.npub_receiver).allowed
              /\ c.allowed =
                    check(Unwrap(limiter), now, c.ip, c.email, c.npub_sender,
                          c.npub_receiver).allowed]_vars

\* a check made 24 h and a second after the last use of an email key that
\* was at its limit: pruning removed the entry, the reference limiter still
\* holds it, and the check of the address alone is allowed
C36_Witness ==
    /\ IsSome(limiter)
    /\ IsSome(lastCheck)
    /\ now = 86401
    /\ Unwrap(limiter).by_email["a@x.co"] = None
    /\ IsSome(Unwrap(unpruned).by_email["a@x.co"])
    /\ Len(Unwrap(Unwrap(unpruned).by_email["a@x.co"]).hits) = 30
    /\ Unwrap(lastCheck).allowed

\* C37: a denied allow records no hit and every allow sets last_seen to the
\* time of the call; so for a key at its limit the allow made later than the
\* oldest recorded hit + window returns true, whatever calls were denied
\* before it.
C37_DenialDoesNotProlong ==
    [][(IsSome(slidingWindow) /\ IsSome(lastAllow') /\ lastAllow' # lastAllow) =>
          LET w == Unwrap(slidingWindow)
              after == Unwrap(slidingWindow')
              call == Unwrap(lastAllow')
          IN  /\ after.last_seen = call.t
              /\ ~call.allowed =>
                    /\ Len(after.hits) <= Len(w.hits)
                    /\ after.hits =
                          SubSeq(w.hits, Len(w.hits) - Len(after.hits) + 1,
                                 Len(w.hits))
              /\ (/\ w.hits # <<>>
                  /\ Len(w.hits) = w.limit
                  /\ call.t > w.hits[1] + w.window)
                 => call.allowed]_vars

\* a window of limit 1 and width 2 with its hit at 0 has denied a call at 2:
\* the hit is the only one recorded and last_seen is 2
C37_Witness ==
    /\ IsSome(slidingWindow)
    /\ Unwrap(slidingWindow).limit = 1
    /\ Unwrap(slidingWindow).window = 2
    /\ Unwrap(slidingWindow).hits = <<0>>
    /\ Unwrap(slidingWindow).last_seen = 2
    /\ lastAllow = Some([t |-> 2, allowed |-> FALSE])

\* C38: in start, register, send and proxy req the hit is recorded before
\* the signature or the challenge is verified: the check is evaluated before
\* any operation of the handler, an allowed check leaves a hit at the time
\* of the call in the window of the address and of every email, sender and
\* receiver it names, and a request that is rejected afterwards for its
\* signature or challenge was allowed and gives no hit back.
C38_HitBeforeVerification ==
    [][\A p \in Procs :
          /\ (tasks[p].pc = "check" /\ tasks'[p].pc = "drop") =>
                LET h == Handlers[tasks[p].handler]
                    hit(map, key) ==
                       /\ IsSome(map[key])
                       /\ Unwrap(map[key]).last_seen = now
                       /\ Unwrap(map[key]).hits # <<>>
                       /\ Unwrap(map[key]).hits[Len(Unwrap(map[key]).hits)] = now
                    fewer(old, new, key) ==
                       \/ old[key] = None
                       \/ Len(Unwrap(new[key]).hits) =
                             Len(pop_expired(Unwrap(old[key]).hits, now,
                                             Unwrap(old[key]).window)) + 1
                    l == Unwrap(limiter)
                    after == Unwrap(limiter')
                IN  /\ tasks[p].io = <<>>
                    /\ ~tasks'[p].unverified
                    /\ tasks'[p].allowed = Some(TRUE) =>
                          /\ hit(after.by_ip, "203.0.113.7")
                          /\ fewer(l.by_ip, after.by_ip, "203.0.113.7")
                          /\ IsSome(h.email) =>
                                hit(after.by_email, Unwrap(h.email))
                          /\ IsSome(h.npub_sender) =>
                                hit(after.by_npub_sender, Unwrap(h.npub_sender))
                          /\ IsSome(h.npub_receiver) =>
                                /\ hit(after.by_npub_receiver,
                                       Unwrap(h.npub_receiver))
                                /\ fewer(l.by_npub_receiver,
                                         after.by_npub_receiver,
                                         Unwrap(h.npub_receiver))
          /\ (~tasks[p].unverified /\ tasks'[p].unverified) =>
                /\ tasks[p].allowed = Some(TRUE)
                /\ tasks[p].handler # "start"
                /\ UNCHANGED limiter]_vars

\* a register that was rejected for its challenge or signature has brought
\* the receiver's window from one below its limit to its limit
C38_Witness ==
    \E p \in Procs :
       /\ tasks[p].handler = "register"
       /\ tasks[p].pc = "done"
       /\ tasks[p].unverified
       /\ Unwrap(lastCheck).n = 1
       /\ Len(Unwrap(Unwrap(limiter).by_npub_receiver["npub1a"]).hits) = 100

\* register has passed the signature check and its confirmation email cannot
\* be built or sent: 500, and the confirmation and preferences rows are
\* unchanged
EmailFailureLeavesRows ==
    \A p \in Procs :
       (pc[p] = "reg_email" /\ Steps(p) /\ pc'[p] = "done") =>
          /\ Unwrap(resp'[p]) =
                [status |-> 500, msg |-> "send mail confirmation error"]
          /\ UNCHANGED <<verification, preferences>>

\* C39 as stated: when register passes signature verification but the
\* confirmation email cannot be built or sent, it returns 500, the rows of
\* the npub are unchanged and the challenge has already been deleted.
C39_EmailFailureAfterDelete ==
    [][/\ EmailFailureLeavesRows
       /\ \A p \in Procs :
             (pc[p] = "reg_email" /\ Steps(p) /\ pc'[p] = "done") =>
                challenges[Unwrap(req[p]).npub] = None]_vars

\* C39: when register passes signature verification but the confirmation
\* email cannot be built or sent, it returns 500 and the rows of the npub
\* are unchanged; the delete of the challenge has been attempted before and
\* removed that npub's row and no other, or failed and left the table, so
\* the challenge is gone unless the delete failed.
C39_EmailFailureAfterDeleteAttempt ==
    [][/\ EmailFailureLeavesRows
       /\ \A p \in Procs :
             /\ (pc[p] = "reg_remove" /\ Steps(p)) =>
                   /\ pc'[p] = "reg_email"
                   /\ \/ UNCHANGED challenges
                      \/ challenges' =
                            [challenges EXCEPT ![Unwrap(req[p]).npub] = None]
             /\ (pc[p] = "reg_email" /\ Steps(p) /\ pc'[p] = "done") =>
                   get_challenge_for_npub(Unwrap(req[p]).npub)
                      \in {None, Some(Unwrap(loc[p]).challenge)}]_vars

\* a register whose delete failed and whose email could not be sent: 500,
\* no rows, and the challenge it verified is still stored
C39_Witness ==
    \E p \in Procs :
       /\ Answered(p, "register", 500)
       /\ Unwrap(resp[p]).msg = "send mail confirmation error"
       /\ get_challenge_for_npub(R(p).npub) = Some(L(p).challenge)
       /\ verification[R(p).npub] = None
       /\ preferences[R(p).npub] = None

\* C40: a successful update_preferences changes only enabled and flags of
\* the preferences row whose token matches: every other field of that row,
\* every other preferences row, the challenges and the confirmations are
\* unchanged; no step of send or of preferences (GET) changes a stored row.
C40_UpdateWritesEnabledAndFlagsOnly ==
    [][\A p \in Procs :
          /\ (/\ pc[p] = "upd_write" /\ Steps(p)
              /\ Unwrap(resp'[p]).status = 303) =>
                /\ UNCHANGED <<challenges, verification>>
                /\ Cardinality({n \in Npubs :
                       preferences'[n] # preferences[n]}) <= 1
                /\ \A n \in Npubs :
                      IF /\ IsSome(preferences[n])
                         /\ Unwrap(preferences[n]).token = Unwrap(req[p]).token
                      THEN preferences'[n] =
                              Some([Unwrap(preferences[n]) EXCEPT
                                 !.enabled = Unwrap(loc[p]).enabled,
                                 !.flags = Unwrap(loc[p]).updated_flags])
                      ELSE preferences'[n] = preferences[n]
          /\ (/\ Steps(p) /\ IsSome(req'[p])
              /\ Unwrap(req'[p]).h \in {"send", "preferences"}) =>
                UNCHANGED store]_vars

\* an update_preferences redirected after it turned a confirmed row off: of
\* the row read, enabled differs and token, email, email_confirmed and
\* ebill_url are the same
C40_Witness ==
    \E p \in Procs, n \in Npubs :
       /\ Answered(p, "update_preferences", 303)
       /\ IsSome(preferences[n])
       /\ Unwrap(preferences[n]).token = R(p).token
       /\ L(p).email_preferences.enabled
       /\ ~Unwrap(preferences[n]).enabled
       /\ Unwrap(preferences[n]).flags = L(p).updated_flags
       /\ Unwrap(preferences[n]).email_confirmed
       /\ Unwrap(preferences[n]).email = L(p).email_preferences.email
       /\ Unwrap(preferences[n]).ebill_url = L(p).email_preferences.ebill_url
====
